---- MODULE Spec2Model ----
(***************************************************************************)
(* Rule evaluation engine of the data quality framework: the CheckResult   *)
(* model, the per-family evaluators, the chunked count of the query        *)
(* executor and the run_validation orchestrator.                           *)
(*                                                                         *)
(* Numbers that are floats in the source are exact rationals <<n, d>>      *)
(* with d > 0.  A value that may be None is a sequence of length 0 (None)  *)
(* or 1 (the value).                                                       *)
(***************************************************************************)
EXTENDS Integers, Sequences, FiniteSets, TLC

VARIABLES
    pc,         \* where the checker is: "idle", "run_checks", "returned"
    family,     \* the checker class constructed
    rules,      \* self.rules
    idx,        \* position of the loop of run_checks in self.rules
    results,    \* self.results
    origin,     \* for each result, the position of the rule it was made for
    qlog,       \* the queries the executor was asked, with the rule's position
    db,         \* the data the executor answers from
    faults,     \* executor failures the environment may still inject
    ret,        \* return value of a direct executor call
    stage,      \* where run_validation / main is; "none" outside a run
    attempt,    \* attempt number of the loop of _init_pool, 0 outside it
    pool,       \* whether DBConnector.pool is set
    check_list, \* the check families asked for
    all_rules,  \* the rule lists the configuration loader returned
    report_type,
    cur,        \* position in the fixed order of the six checker blocks
    called,     \* the families whose run_checks was called
    all_results,
    summary,
    reported,   \* the reports generated
    raised,     \* the exception that left run_validation, if any
    slept,      \* the seconds the loop of _init_pool has slept, 0 outside it
    exit_code   \* the exit status of main, once it ended

checkerVars == <<pc, family, rules, idx, results, origin, qlog, db, faults>>

runVars == <<stage, attempt, pool, check_list, all_rules, report_type, cur,
             called, all_results, summary, reported, raised, slept, exit_code>>

vars == <<pc, family, rules, idx, results, origin, qlog, db, faults, ret,
          stage, attempt, pool, check_list, all_rules, report_type, cur,
          called, all_results, summary, reported, raised, slept, exit_code>>

(***************************************************************************)
(* Bounds of the model.                                                    *)
(***************************************************************************)
MaxRules == 2
MaxFaults == 2
MaxKey == 2
MaxChunk == 3
MaxCount == 3
MaxRows == 3
MaxDupRows == 4
MaxRangeRows == 3
MaxParentRows == 2

(***************************************************************************)
(* Exact rationals standing for Python floats.                             *)
(***************************************************************************)
Zero == <<0, 1>>
One == <<1, 1>>
Leq(a, b) == a[1] * b[2] <= b[1] * a[2]
EqR(a, b) == a[1] * b[2] = b[1] * a[2]
Twice(a) == <<2 * a[1], a[2]>>
Abs(x) == IF x < 0 THEN -x ELSE x

None == <<>>
Some(v) == <<v>>

(***************************************************************************)
(* Python dict access on a rule.                                           *)
(***************************************************************************)
Has(rule, k) == k \in DOMAIN rule
Get(rule, k, d) == IF k \in DOMAIN rule THEN rule[k] ELSE d

\* rule[k] for each k of keys in order: the first absent key raises KeyError
RECURSIVE FirstMissing(_, _)
FirstMissing(rule, keys) ==
    IF keys = <<>> THEN None
    ELSE IF ~Has(rule, Head(keys)) THEN Some(Head(keys))
    ELSE FirstMissing(rule, Tail(keys))

(***************************************************************************)
(* base_checker.py                                                         *)
(***************************************************************************)
CheckStatus == {"PASS", "FAIL", "WARNING", "ERROR"}

\* a variant of MakeResult that divides whatever total_rows is
MakeResultUnguarded(rule, check_type, status, total_rows, violation_count, details) ==
    [rule_id |-> Get(rule, "rule_id", "UNKNOWN"),
     check_type |-> check_type,
     status |-> status,
     total_rows |-> total_rows,
     violation_count |-> violation_count,
     violation_ratio |-> <<violation_count, total_rows>>,
     details |-> details]

\* a variant of MakeResult that keeps the ratio within [0, 1]
MakeResultCapped(rule, check_type, status, total_rows, violation_count, details) ==
    [rule_id |-> Get(rule, "rule_id", "UNKNOWN"),
     check_type |-> check_type,
     status |-> status,
     total_rows |-> total_rows,
     violation_count |-> violation_count,
     violation_ratio |-> IF total_rows > 0
                         THEN (IF violation_count > total_rows THEN One
                               ELSE <<violation_count, total_rows>>)
                         ELSE Zero,
     details |-> details]

MakeResult(rule, check_type, status, total_rows, violation_count, details) ==
    [rule_id |-> Get(rule, "rule_id", "UNKNOWN"),
     check_type |-> check_type,
     status |-> status,
     total_rows |-> total_rows,
     violation_count |-> violation_count,
     violation_ratio |-> IF total_rows > 0
                         THEN <<violation_count, total_rows>>
                         ELSE Zero,
     details |-> details]

MakeErrorResult(rule, check_type, error) ==
    MakeResult(rule, check_type, "ERROR", 0, 0, [error |-> error])

\* what evaluating one rule leaves behind: the results it appended and the
\* queries it issued
Outcome(res, q) == [res |-> res, q |-> q]

KeyError(k) == "KeyError:" \o k
ExecutorError == "MySQLError"

\* a query handed to the executor; a and b are the parameters of a chunk query
Q(name) == [q |-> name, a |-> 0, b |-> 0]

\* the path of one rule evaluation when no query fails: the queries issued in
\* order, the results appended, and the exception (if any) raised at its end
Path(q, res, exc) == [q |-> q, res |-> res, exc |-> exc]

\* a variant of Evaluate whose except clause records nothing
EvaluateSilent(rule, check_type, required, path, failAt) ==
    IF FirstMissing(rule, required) # None
    THEN [res |-> <<>>, q |-> <<>>]
    ELSE IF failAt \in 1..Len(path.q)
    THEN [res |-> <<>>, q |-> SubSeq(path.q, 1, failAt)]
    ELSE [res |-> path.res, q |-> path.q]

\* try: <evaluate rule> except Exception as e: _make_error_result(...)
\* failAt = k > 0: the k-th query of the path raises in the executor
Evaluate(rule, check_type, required, path, failAt) ==
    LET missing == FirstMissing(rule, required) IN
    IF missing # None
    THEN Outcome(<<MakeErrorResult(rule, check_type, KeyError(missing[1]))>>, <<>>)
    ELSE IF failAt \in 1..Len(path.q)
    THEN Outcome(<<MakeErrorResult(rule, check_type, ExecutorError)>>,
                 SubSeq(path.q, 1, failAt))
    ELSE IF path.exc # None
    THEN Outcome(path.res \o <<MakeErrorResult(rule, check_type, path.exc[1])>>, path.q)
    ELSE Outcome(path.res, path.q)

\* round(x, digits) of a non-negative rational, scale = 10^digits, ties to even
RoundTo(r, scale) ==
    LET n == r[1] * scale
        q == n \div r[2]
        rem == n % r[2]
    IN IF 2 * rem > r[2] \/ (2 * rem = r[2] /\ q % 2 = 1)
       THEN <<q + 1, scale>>
       ELSE <<q, scale>>

Round6(r) == RoundTo(r, 1000000)
Round2(r) == RoundTo(r, 100)

(***************************************************************************)
(* db_connector.py: counting                                               *)
(***************************************************************************)
SetMin(S) == CHOOSE x \in S : \A y \in S : x <= y
SetMax(S) == CHOOSE x \in S : \A y \in S : y <= x

\* SELECT MIN(pk) / MAX(pk): NULL on an empty table
ScalarMin(keys) == IF keys = {} THEN None ELSE Some(SetMin(keys))
ScalarMax(keys) == IF keys = {} THEN None ELSE Some(SetMax(keys))

\* Python's  x or 0  on an optional integer
OrZero(opt) == IF opt = None THEN 0 ELSE IF opt[1] = 0 THEN 0 ELSE opt[1]

\* the one filter the model knows: where_clause "transaction_id > 0"
WhereHolds(k) == k > 0

\* execute_count(table, where_clause)
ExecuteCount(keys, where_clause) ==
    IF where_clause # None
    THEN OrZero(Some(Cardinality({k \in keys : WhereHolds(k)})))
    ELSE OrZero(Some(Cardinality(keys)))

ChunkQuery(start, end) == [q |-> "chunk", a |-> start, b |-> end]

\* the while loop of execute_chunked_count
RECURSIVE ChunkLoop(_, _, _, _, _, _)
ChunkLoop(keys, chunk_size, current_start, max_id, total_count, q) ==
    IF current_start <= max_id
    THEN LET current_end == current_start + chunk_size - 1
             chunk_count == Some(Cardinality({k \in keys :
                                 current_start <= k /\ k <= current_end}))
         IN ChunkLoop(keys, chunk_size, current_end + 1, max_id,
                      total_count + OrZero(chunk_count),
                      Append(q, ChunkQuery(current_start, current_end)))
    ELSE [total |-> total_count, q |-> q]

ExecuteChunkedCount(keys, chunk_size) ==
    LET min_id == OrZero(ScalarMin(keys))
        max_id == OrZero(ScalarMax(keys))
    IN IF max_id = 0
       THEN [total |-> 0, q |-> <<Q("min"), Q("max")>>]
       ELSE ChunkLoop(keys, chunk_size, min_id, max_id, 0, <<Q("min"), Q("max")>>)

(***************************************************************************)
(* count_checker.py                                                        *)
(***************************************************************************)
CHUNK_THRESHOLD == 500000
DefaultChunkSize == 100000

\* a variant of GetCount that also chunks a table estimated at the threshold
GetCountAtThreshold(keys, approx, where_clause) ==
    IF approx # None /\ approx[1] # 0 /\ approx[1] >= CHUNK_THRESHOLD
       /\ where_clause = None
    THEN LET c == ExecuteChunkedCount(keys, DefaultChunkSize)
         IN [count |-> c.total, q |-> <<Q("approx")>> \o c.q]
    ELSE [count |-> ExecuteCount(keys, where_clause),
          q |-> <<Q("approx"), Q("count")>>]

\* _get_count(table, where_clause): approx is the catalog's row estimate
GetCount(keys, approx, where_clause) ==
    IF approx # None /\ approx[1] # 0 /\ approx[1] > CHUNK_THRESHOLD
       /\ where_clause = None
    THEN LET c == ExecuteChunkedCount(keys, DefaultChunkSize)
         IN [count |-> c.total, q |-> <<Q("approx")>> \o c.q]
    ELSE [count |-> ExecuteCount(keys, where_clause),
          q |-> <<Q("approx"), Q("count")>>]

\* a variant of CountDiffRatio that reads an empty source as no difference
CountDiffRatioEmptySource(source_count, target_count) ==
    IF source_count = 0
    THEN Zero
    ELSE <<Abs(source_count - target_count), source_count>>

CountDiffRatio(source_count, target_count) ==
    IF source_count = 0
    THEN (IF target_count = 0 THEN Zero ELSE One)
    ELSE <<Abs(source_count - target_count), source_count>>

CountStatus(diff_ratio, threshold) ==
    IF Leq(diff_ratio, threshold) THEN "PASS" ELSE "FAIL"

CountPath(rule, d) ==
    LET threshold == Get(rule, "threshold", Zero)
        where_clause == Get(rule, "where_clause", None)
        custom == Has(rule, "source_count_query") /\ Has(rule, "target_count_query")
        src == IF custom
               THEN [count |-> Cardinality(d.src), q |-> <<Q("source_count_query")>>]
               ELSE GetCount(d.src, d.src_approx, where_clause)
        tgt == IF custom
               THEN [count |-> Cardinality(d.tgt), q |-> <<Q("target_count_query")>>]
               ELSE GetCount(d.tgt, d.tgt_approx, where_clause)
        diff_ratio == CountDiffRatio(src.count, tgt.count)
        status == CountStatus(diff_ratio, threshold)
        violation_count == Abs(src.count - tgt.count)
    IN Path(src.q \o tgt.q,
            <<MakeResult(rule, "count", status, src.count, violation_count,
                         [source_count |-> src.count,
                          target_count |-> tgt.count,
                          diff_ratio |-> Round6(diff_ratio),
                          threshold |-> threshold,
                          where_clause |-> where_clause])>>,
            None)

CountRequired == <<"rule_id", "source_table", "target_table", "description">>

\* CountChecker: one iteration of the loop of run_checks
RunCountRule(rule, d, failAt) ==
    Evaluate(rule, "count", CountRequired, CountPath(rule, d), failAt)

(***************************************************************************)
(* null_checker.py                                                         *)
(***************************************************************************)
NullCell == [null |-> TRUE, s |-> <<>>]
Text(s) == [null |-> FALSE, s |-> s]

RECURSIVE LTrim(_)
LTrim(s) == IF s # <<>> /\ Head(s) = " " THEN LTrim(Tail(s)) ELSE s

RECURSIVE RTrim(_)
RTrim(s) == IF s # <<>> /\ s[Len(s)] = " " THEN RTrim(SubSeq(s, 1, Len(s) - 1)) ELSE s

\* SQL TRIM, NULLIF(c, ''), COALESCE(a, b)
SqlTrim(c) == IF c.null THEN c ELSE Text(RTrim(LTrim(c.s)))
SqlNullIfEmpty(c) == IF ~c.null /\ c.s = <<>> THEN NullCell ELSE c
SqlCoalesce(a, b) == IF a.null THEN b ELSE a


IsNull(c) == c.null
\* COALESCE(NULLIF(TRIM(col), ''), NULL) IS NULL
IsNullOrEmpty(c) == SqlCoalesce(SqlNullIfEmpty(SqlTrim(c)), NullCell).null
\* col IS NOT NULL AND TRIM(col) = ''
IsEmptyString(c) == ~c.null /\ SqlTrim(c).s = <<>>

\* SELECT COUNT(*) ... WHERE <condition on the column>
CountNull(col) == Cardinality({i \in 1..Len(col) : IsNull(col[i])})
CountNullOrEmpty(col) == Cardinality({i \in 1..Len(col) : IsNullOrEmpty(col[i])})
CountEmptyString(col) == Cardinality({i \in 1..Len(col) : IsEmptyString(col[i])})

\* a variant of NullStatus whose WARNING band excludes its upper end
NullStatusOpenBand(null_ratio, max_null_ratio) ==
    IF Leq(null_ratio, max_null_ratio) THEN "PASS"
    ELSE IF ~Leq(Twice(max_null_ratio), null_ratio) THEN "WARNING"
    ELSE "FAIL"

NullStatus(null_ratio, max_null_ratio) ==
    IF Leq(null_ratio, max_null_ratio) THEN "PASS"
    ELSE IF Leq(null_ratio, Twice(max_null_ratio)) THEN "WARNING"
    ELSE "FAIL"

\* a variant of NullEmptyTable that goes on to count the nulls of no rows
NullEmptyTableCounted(rule) ==
    Path(<<Q("count"), Q("null_count")>>,
         <<MakeResult(rule, "null", "PASS", 0, 0, [message |-> "table is empty"])>>,
         None)

\* if total_rows == 0: return self._make_result(... WARNING ...)
NullEmptyTable(rule) ==
    Path(<<Q("count")>>,
         <<MakeResult(rule, "null", "WARNING", 0, 0, [message |-> "table is empty"])>>,
         None)

NullPath(rule, col) ==
    LET max_null_ratio == Get(rule, "max_null_ratio", Zero)
        include_empty_string == Get(rule, "include_empty_string", FALSE)
        total_rows == OrZero(Some(Len(col)))
        null_count == IF include_empty_string
                      THEN CountNullOrEmpty(col)
                      ELSE CountNull(col)
        null_ratio == <<null_count, total_rows>>
        base == [max_null_ratio |-> max_null_ratio,
                 actual_null_ratio |-> Round6(null_ratio),
                 include_empty_string |-> include_empty_string]
        details == IF include_empty_string
                   THEN [max_null_ratio |-> max_null_ratio,
                         actual_null_ratio |-> Round6(null_ratio),
                         include_empty_string |-> include_empty_string,
                         pure_null_count |-> CountNull(col),
                         empty_string_count |-> CountEmptyString(col)]
                   ELSE base
    IN IF total_rows = 0
       THEN NullEmptyTable(rule)
       ELSE Path(IF include_empty_string
                 THEN <<Q("count"), Q("null_count"), Q("detail")>>
                 ELSE <<Q("count"), Q("null_count")>>,
                 <<MakeResult(rule, "null",
                              NullStatus(null_ratio, max_null_ratio),
                              total_rows, null_count, details)>>,
                 None)

\* the path of _run_single_check when the detail query answers a row whose
\* two sums are NULL (what SUM gives over no rows): the result is appended
\* with both counts None, then  details.get("empty_string_count", 0) > 0
\* raises TypeError
NullPathNullSums(rule, col) ==
    LET max_null_ratio == Get(rule, "max_null_ratio", Zero)
        include_empty_string == Get(rule, "include_empty_string", FALSE)
        total_rows == OrZero(Some(Len(col)))
        null_count == CountNullOrEmpty(col)
        null_ratio == <<null_count, total_rows>>
    IN IF total_rows = 0 \/ ~include_empty_string
       THEN NullPath(rule, col)
       ELSE Path(<<Q("count"), Q("null_count"), Q("detail")>>,
                 <<MakeResult(rule, "null",
                              NullStatus(null_ratio, max_null_ratio),
                              total_rows, null_count,
                              [max_null_ratio |-> max_null_ratio,
                               actual_null_ratio |-> Round6(null_ratio),
                               include_empty_string |-> include_empty_string,
                               pure_null_count |-> None,
                               empty_string_count |-> None])>>,
                 Some("TypeError"))

NullRequired == <<"rule_id", "table", "column", "description">>

\* NullChecker: one iteration of the loop of run_checks
RunNullRule(rule, col, failAt) ==
    Evaluate(rule, "null", NullRequired, NullPath(rule, col), failAt)

(***************************************************************************)
(* duplicate_checker.py                                                    *)
(***************************************************************************)
\* SUM(cnt - 1) over the duplicate groups
RECURSIVE SumExcess(_)
SumExcess(groups) ==
    IF groups = {} THEN 0
    ELSE LET g == CHOOSE x \in groups : TRUE
         IN (g.duplicate_count - 1) + SumExcess(groups \ {g})

\* the key tuple of a row over the listed columns
KeyOf(row, columns) == [i \in 1..Len(columns) |-> row[columns[i]]]

\* a variant of KeyNotNull without the IS NOT NULL filter
KeyMayBeNull(row, columns) == TRUE

\* WHERE c1 IS NOT NULL AND c2 IS NOT NULL ...
KeyNotNull(row, columns) == \A i \in 1..Len(columns) : row[columns[i]] # None

\* GROUP BY columns HAVING COUNT(*) > 1, as [key, duplicate_count] records
DupGroups(rows, columns) ==
    LET live == {i \in 1..Len(rows) : KeyNotNull(rows[i], columns)}
        keys == {KeyOf(rows[i], columns) : i \in live}
        cnt(k) == Cardinality({i \in live : KeyOf(rows[i], columns) = k})
    IN {[key |-> k, duplicate_count |-> cnt(k)] : k \in {x \in keys : cnt(x) > 1}}

\* ORDER BY COUNT(*) DESC LIMIT n: one of the orders the database may return
TopGroups(groups, n) ==
    LET m == IF Cardinality(groups) < n THEN Cardinality(groups) ELSE n
    IN CHOOSE seq \in [1..m -> groups] :
          /\ \A i, j \in 1..m : i < j =>
                /\ seq[i] # seq[j]
                /\ seq[i].duplicate_count >= seq[j].duplicate_count
          /\ \A g \in groups : (\A i \in 1..m : seq[i] # g) =>
                \A i \in 1..m : seq[i].duplicate_count >= g.duplicate_count

FirstN(seq, n) == SubSeq(seq, 1, IF Len(seq) < n THEN Len(seq) ELSE n)

DuplicatePath(rule, rows) ==
    LET columns == rule["columns"]
        total_rows == OrZero(Some(Len(rows)))
        groups == DupGroups(rows, columns)
        dup_group_count == Cardinality(groups)
        dup_row_count == OrZero(Some(SumExcess(groups)))
        sample_records == TopGroups(groups, 10)
        status == IF dup_row_count = 0 THEN "PASS" ELSE "FAIL"
    IN Path(<<Q("count"), Q("dup_groups"), Q("dup_rows"), Q("sample")>>,
            <<MakeResult(rule, "duplicate", status, total_rows, dup_row_count,
                         [columns |-> columns,
                          duplicate_groups |-> dup_group_count,
                          duplicate_rows |-> dup_row_count,
                          sample_records |-> FirstN(sample_records, 5)])>>,
            None)

DuplicateRequired == <<"rule_id", "table", "columns", "description">>

\* DuplicateChecker: one iteration of the loop of run_checks
RunDuplicateRule(rule, rows, failAt) ==
    Evaluate(rule, "duplicate", DuplicateRequired, DuplicatePath(rule, rows), failAt)

(***************************************************************************)
(* range_checker.py                                                        *)
(***************************************************************************)
Digits == <<"0", "1", "2", "3", "4", "5", "6", "7", "8", "9">>

\* str(n) of a Python integer
RECURSIVE NatToStr(_)
NatToStr(n) == IF n < 10 THEN Digits[n + 1]
               ELSE NatToStr(n \div 10) \o Digits[(n % 10) + 1]
IntToStr(n) == IF n < 0 THEN "-" \o NatToStr(-n) ELSE NatToStr(n)
\* str(x) of an optional integer
OptToStr(opt) == IF opt = None THEN "None" ELSE IntToStr(opt[1])

\* the values of a column that are not NULL, as a set of row positions
NotNullAt(col) == {i \in 1..Len(col) : col[i] # None}
NotNullValues(col) == {col[i][1] : i \in NotNullAt(col)}

\* SELECT COUNT(*) FROM t WHERE col IS NOT NULL
CountNotNull(col) == Cardinality(NotNullAt(col))

\* a variant of OutOfBounds that takes a bound of 0 for no bound
OutOfBoundsTruthy(v, lo, hi) ==
    \/ (lo # None /\ lo[1] # 0 /\ v < lo[1])
    \/ (hi # None /\ hi[1] # 0 /\ v > hi[1])

\* " OR ".join(conditions) if conditions else "1=0", on a non-null value
OutOfBounds(v, lo, hi) == (lo # None /\ v < lo[1]) \/ (hi # None /\ v > hi[1])

NumericRangePath(rule, d) ==
    LET min_value == Get(rule, "min_value", None)
        max_value == Get(rule, "max_value", None)
        total_rows == CountNotNull(d.col)
        violation_count == Cardinality({i \in NotNullAt(d.col) :
                               OutOfBounds(d.col[i][1], min_value, max_value)})
        status == IF violation_count = 0 THEN "PASS" ELSE "FAIL"
    IN Path(<<Q("count_not_null"), Q("range")>>,
            <<MakeResult(rule, "range", status, total_rows, violation_count,
                         [expected_min |-> min_value,
                          expected_max |-> max_value,
                          actual_min |-> OptToStr(ScalarMin(NotNullValues(d.col))),
                          actual_max |-> OptToStr(ScalarMax(NotNullValues(d.col)))])>>,
            None)

\* if min_date: / if max_date: -- a date is an optional day number, None
\* standing for an absent, None or empty setting
DateRangePath(rule, d) ==
    LET min_date == Get(rule, "min_date", None)
        max_date == Get(rule, "max_date", None)
        total_rows == CountNotNull(d.col)
        violation_count == Cardinality({i \in NotNullAt(d.col) :
                               OutOfBounds(d.col[i][1], min_date, max_date)})
        status == IF violation_count = 0 THEN "PASS" ELSE "FAIL"
    IN Path(<<Q("count_not_null"), Q("date_range")>>,
            <<MakeResult(rule, "range", status, total_rows, violation_count,
                         [min_date |-> min_date, max_date |-> max_date])>>,
            None)

\* WHERE col > NOW(): d.now is the database clock at the time of the query
NoFuturePath(rule, d) ==
    LET total_rows == CountNotNull(d.col)
        violation_count == Cardinality({i \in NotNullAt(d.col) : d.col[i][1] > d.now})
        status == IF violation_count = 0 THEN "PASS" ELSE "FAIL"
    IN Path(<<Q("count_not_null"), Q("no_future")>>,
            <<MakeResult(rule, "range", status, total_rows, violation_count,
                         [check |-> "no_future_date"])>>,
            None)

\* a variant of FkPath with  c.column NOT IN (SELECT parent_column ...), which
\* is never true once the parent column holds a NULL
FkPathNotIn(rule, d) ==
    LET total_rows == CountNotNull(d.col)
        orphan_count == IF \E p \in 1..Len(d.parent) : d.parent[p] = None
                        THEN 0
                        ELSE Cardinality({i \in NotNullAt(d.col) :
                                 d.col[i][1] \notin NotNullValues(d.parent)})
        status == IF orphan_count = 0 THEN "PASS" ELSE "FAIL"
    IN Path(<<Q("count_not_null"), Q("orphans")>>,
            <<MakeResult(rule, "foreign_key", status, total_rows, orphan_count,
                         [parent_table |-> rule["parent_table"],
                          parent_column |-> rule["parent_column"],
                          orphan_count |-> orphan_count])>>,
            None)

\* NOT EXISTS (SELECT 1 FROM parent p WHERE p.parent_column = c.column)
FkPath(rule, d) ==
    LET total_rows == CountNotNull(d.col)
        orphan_count == Cardinality({i \in NotNullAt(d.col) :
                            d.col[i][1] \notin NotNullValues(d.parent)})
        status == IF orphan_count = 0 THEN "PASS" ELSE "FAIL"
    IN Path(<<Q("count_not_null"), Q("orphans")>>,
            <<MakeResult(rule, "foreign_key", status, total_rows, orphan_count,
                         [parent_table |-> rule["parent_table"],
                          parent_column |-> rule["parent_column"],
                          orphan_count |-> orphan_count])>>,
            None)

RangeRequired == <<"rule_id", "table", "column", "description">>
FkRequired == <<"rule_id", "table", "column", "parent_table", "parent_column",
                "description">>

\* RangeChecker: one iteration of the loop of run_checks
RunRangeRule(rule, d, failAt) ==
    LET check_type == Get(rule, "check_type", "range") IN
    IF check_type = "foreign_key"
    THEN Evaluate(rule, "range", FkRequired, FkPath(rule, d), failAt)
    ELSE IF check_type = "date_range"
    THEN Evaluate(rule, "range", RangeRequired, DateRangePath(rule, d), failAt)
    ELSE IF check_type = "no_future"
    THEN Evaluate(rule, "range", RangeRequired, NoFuturePath(rule, d), failAt)
    ELSE Evaluate(rule, "range", RangeRequired, NumericRangePath(rule, d), failAt)

(***************************************************************************)
(* transform_checker.py                                                    *)
(* A row of a query result is [k |-> join key, v |-> optional number].     *)
(***************************************************************************)
IntKey(n) == [t |-> "int", n |-> n, s |-> ""]
StrKey(s) == [t |-> "str", n |-> 0, s |-> s]
NullKey == [t |-> "null", n |-> 0, s |-> ""]

\* str(row[join_key])
Str(key) == IF key.t = "int" THEN IntToStr(key.n)
            ELSE IF key.t = "str" THEN key.s
            ELSE "None"

\* the keys of the dict built from rows, in insertion order
RECURSIVE MapKeys(_)
MapKeys(rows) ==
    IF rows = <<>> THEN <<>>
    ELSE LET init == MapKeys(SubSeq(rows, 1, Len(rows) - 1))
             key == Str(rows[Len(rows)].k)
         IN IF \E i \in 1..Len(init) : init[i] = key THEN init ELSE Append(init, key)

\* the value the dict holds for key: the one of the last row with that key
MapValue(rows, key) ==
    LET last == CHOOSE i \in 1..Len(rows) :
                    /\ Str(rows[i].k) = key
                    /\ \A j \in (i + 1)..Len(rows) : Str(rows[j].k) # key
    IN rows[last].v

KeySet(rows) == {Str(rows[i].k) : i \in 1..Len(rows)}

TransformQueries == <<Q("source_query"), Q("target_query")>>

\* a variant of AggregatePath that compares the absolute difference with the
\* tolerance
AggregatePathAbsolute(rule, d) ==
    LET tolerance == Get(rule, "tolerance", Zero)
        compare_column == rule["compare_column"]
    IN IF d.source_rows = <<>> \/ d.target_rows = <<>>
       THEN Path(TransformQueries,
                 <<MakeResult(rule, "transform", "WARNING", 0, 0,
                              [message |-> "source or target result is empty"])>>,
                 None)
       ELSE LET source_value == d.source_rows[1].v
                target_value == d.target_rows[1].v
                absent == source_value = None \/ target_value = None
                status == IF absent THEN "WARNING"
                          ELSE IF Leq(<<Abs(source_value[1] - target_value[1]), 1>>,
                                      tolerance)
                          THEN "PASS" ELSE "FAIL"
                diff == IF absent THEN None
                        ELSE Some(Abs(source_value[1] - target_value[1]))
            IN Path(TransformQueries,
                    <<MakeResult(rule, "transform", status, 0, 0,
                                 [source_value |-> source_value,
                                  target_value |-> target_value,
                                  difference |-> diff,
                                  tolerance |-> tolerance,
                                  compare_column |-> compare_column])>>,
                    None)

AggregatePath(rule, d) ==
    LET tolerance == Get(rule, "tolerance", Zero)
        compare_column == rule["compare_column"]
    IN IF d.source_rows = <<>> \/ d.target_rows = <<>>
       THEN Path(TransformQueries,
                 <<MakeResult(rule, "transform", "WARNING", 0, 0,
                              [message |-> "source or target result is empty"])>>,
                 None)
       ELSE LET source_value == d.source_rows[1].v
                target_value == d.target_rows[1].v
                absent == source_value = None \/ target_value = None
                status == IF absent THEN "WARNING"
                          ELSE IF source_value[1] = 0
                          THEN (IF target_value[1] = 0 THEN "PASS" ELSE "FAIL")
                          ELSE IF Leq(<<Abs(source_value[1] - target_value[1]),
                                        Abs(source_value[1])>>, tolerance)
                          THEN "PASS" ELSE "FAIL"
                diff == IF absent THEN None
                        ELSE IF source_value[1] = 0 THEN Some(Abs(target_value[1]))
                        ELSE Some(Abs(source_value[1] - target_value[1]))
            IN Path(TransformQueries,
                    <<MakeResult(rule, "transform", status, 0, 0,
                                 [source_value |-> source_value,
                                  target_value |-> target_value,
                                  difference |-> diff,
                                  tolerance |-> tolerance,
                                  compare_column |-> compare_column])>>,
                    None)

\* the loop  for key in source_map  over keys[i..], acc the counters so far
RECURSIVE JoinLoop(_, _, _, _, _, _)
\* a variant of JoinLoop that counts a key whose two values are both null
JoinLoopNullsDiffer(keys, i, d, tolerance, target_keys, acc) ==
    IF i > Len(keys) THEN acc
    ELSE LET key == keys[i]
             src_val == MapValue(d.source_rows, key)
             tgt_val == MapValue(d.target_rows, key)
             entry == [key |-> key, source |-> src_val, target |-> tgt_val]
             next ==
                IF key \notin target_keys
                THEN [acc EXCEPT !.missing_in_target = @ + 1,
                                 !.mismatch_count = @ + 1]
                ELSE IF src_val = None \/ tgt_val = None
                THEN [acc EXCEPT !.mismatch_count = @ + 1,
                                 !.value_mismatches = Append(@, entry)]
                ELSE IF ~Leq(<<Abs(src_val[1] - tgt_val[1]), 1>>, tolerance)
                THEN [acc EXCEPT !.mismatch_count = @ + 1,
                                 !.value_mismatches =
                                     IF Len(@) < 5 THEN Append(@, entry) ELSE @]
                ELSE acc
         IN JoinLoop(keys, i + 1, d, tolerance, target_keys, next)

JoinLoop(keys, i, d, tolerance, target_keys, acc) ==
    IF i > Len(keys) THEN acc
    ELSE LET key == keys[i]
             src_val == MapValue(d.source_rows, key)
             tgt_val == MapValue(d.target_rows, key)
             entry == [key |-> key, source |-> src_val, target |-> tgt_val]
             next ==
                IF key \notin target_keys
                THEN [acc EXCEPT !.missing_in_target = @ + 1,
                                 !.mismatch_count = @ + 1]
                ELSE IF src_val = None /\ tgt_val = None
                THEN acc
                ELSE IF src_val = None \/ tgt_val = None
                THEN [acc EXCEPT !.mismatch_count = @ + 1,
                                 !.value_mismatches = Append(@, entry)]
                ELSE IF ~Leq(<<Abs(src_val[1] - tgt_val[1]), 1>>, tolerance)
                THEN [acc EXCEPT !.mismatch_count = @ + 1,
                                 !.value_mismatches =
                                     IF Len(@) < 5 THEN Append(@, entry) ELSE @]
                ELSE acc
         IN JoinLoop(keys, i + 1, d, tolerance, target_keys, next)

JoinPath(rule, d) ==
    LET tolerance == Get(rule, "tolerance", Zero)
        source_keys == KeySet(d.source_rows)
        target_keys == KeySet(d.target_rows)
        total_keys == Cardinality(source_keys \cup target_keys)
        acc == JoinLoop(MapKeys(d.source_rows), 1, d, tolerance, target_keys,
                        [mismatch_count |-> 0, missing_in_target |-> 0,
                         value_mismatches |-> <<>>])
        missing_in_source == Cardinality(target_keys \ source_keys)
        mismatch_count == acc.mismatch_count + missing_in_source
        status == IF mismatch_count = 0 THEN "PASS" ELSE "FAIL"
    IN Path(TransformQueries,
            <<MakeResult(rule, "transform", status, total_keys, mismatch_count,
                         [join_key |-> rule["join_key"],
                          compare_column |-> rule["compare_column"],
                          missing_in_target |-> acc.missing_in_target,
                          missing_in_source |-> missing_in_source,
                          value_mismatches_sample |-> acc.value_mismatches])>>,
            None)

\* a variant of ExistencePath that also counts the keys only the target has
ExistencePathSymmetric(rule, d) ==
    LET source_keys == KeySet(d.source_rows)
        target_keys == KeySet(d.target_rows)
        missing_in_target == source_keys \ target_keys
        missing_in_source == target_keys \ source_keys
        total == Cardinality(source_keys)
        violation_count == Cardinality(missing_in_target \cup missing_in_source)
        status == IF violation_count = 0 THEN "PASS" ELSE "FAIL"
    IN Path(TransformQueries,
            <<MakeResult(rule, "transform", status, total, violation_count,
                         [source_count |-> Cardinality(source_keys),
                          target_count |-> Cardinality(target_keys),
                          missing_in_target |-> Cardinality(missing_in_target),
                          missing_in_source |-> Cardinality(missing_in_source)])>>,
            None)

ExistencePath(rule, d) ==
    LET source_keys == KeySet(d.source_rows)
        target_keys == KeySet(d.target_rows)
        missing_in_target == source_keys \ target_keys
        missing_in_source == target_keys \ source_keys
        total == Cardinality(source_keys)
        violation_count == Cardinality(missing_in_target)
        status == IF violation_count = 0 THEN "PASS" ELSE "FAIL"
    IN Path(TransformQueries,
            <<MakeResult(rule, "transform", status, total, violation_count,
                         [source_count |-> Cardinality(source_keys),
                          target_count |-> Cardinality(target_keys),
                          missing_in_target |-> violation_count,
                          missing_in_source |-> Cardinality(missing_in_source)])>>,
            None)

AggregateRequired == <<"rule_id", "source_query", "target_query", "compare_column",
                       "description">>
JoinRequired == <<"rule_id", "source_query", "target_query", "join_key",
                  "compare_column", "description">>
ExistenceRequired == <<"rule_id", "source_query", "target_query", "join_key",
                       "description">>

\* TransformChecker: one iteration of the loop of run_checks
RunTransformRule(rule, d, failAt) ==
    LET compare_type == Get(rule, "compare_type", "value") IN
    IF compare_type = "existence"
    THEN Evaluate(rule, "transform", ExistenceRequired, ExistencePath(rule, d), failAt)
    ELSE IF Has(rule, "join_key")
    THEN Evaluate(rule, "transform", JoinRequired, JoinPath(rule, d), failAt)
    ELSE Evaluate(rule, "transform", AggregateRequired, AggregatePath(rule, d), failAt)

(***************************************************************************)
(* masking_checker.py                                                      *)
(* A column value is None or Some(string); a string is a sequence of       *)
(* one-character strings.                                                  *)
(***************************************************************************)
Stars(n) == [i \in 1..n |-> "*"]
HexChars == {"0", "1", "2", "3", "4", "5", "6", "7", "8", "9",
             "a", "b", "c", "d", "e", "f", "A", "B", "C", "D", "E", "F"}

\* SQL SUBSTRING(s, pos): 1-based, pos 0 gives '', a negative pos counts
\* from the end
SubstringFrom(s, pos) ==
    IF pos = 0 THEN <<>>
    ELSE IF pos > 0 THEN SubSeq(s, pos, Len(s))
    ELSE IF -pos > Len(s) THEN <<>>
    ELSE SubSeq(s, Len(s) + pos + 1, Len(s))

\* SQL SUBSTRING(s, pos, len)
SubstringLen(s, pos, len) ==
    LET t == SubstringFrom(s, pos)
    IN IF len < 1 THEN <<>> ELSE SubSeq(t, 1, IF len < Len(t) THEN len ELSE Len(t))

\* the rows of col selected by WHERE col IS NOT NULL AND bad(col), in table order
RECURSIVE Ascending(_)
Ascending(S) == IF S = {} THEN <<>>
                ELSE <<SetMin(S)>> \o Ascending(S \ {SetMin(S)})

\* the values of the rows at the positions S, in table order
ValuesAt(col, S) ==
    LET at == Ascending(S)
    IN [j \in 1..Len(at) |-> col[at[j]][1]]

\* a variant of SsnPath whose query joins its two conditions with AND
SsnPathBothConditions(rule, col) ==
    LET expected_value == Get(rule, "expected_pattern_value", Stars(7))
        expected_start == Get(rule, "expected_pattern_start", 8)
        expected_length == Get(rule, "expected_length", 14)
        bad(v) == Len(v) # expected_length
                  /\ SubstringFrom(v, expected_start) # expected_value
        total_rows == CountNotNull(col)
        violations == ValuesAt(col, {i \in NotNullAt(col) : bad(col[i][1])})
        violation_count == Len(violations)
        status == IF violation_count = 0 THEN "PASS" ELSE "FAIL"
    IN Path(<<Q("count_not_null"), Q("violations"), Q("sample")>>,
            <<MakeResult(rule, "masking", status, total_rows, violation_count,
                         [masking_type |-> "ssn",
                          expected_format |-> expected_value,
                          violation_samples |-> FirstN(violations, 5)])>>,
            None)

SsnPath(rule, col) ==
    LET expected_value == Get(rule, "expected_pattern_value", Stars(7))
        expected_start == Get(rule, "expected_pattern_start", 8)
        expected_length == Get(rule, "expected_length", 14)
        bad(v) == Len(v) # expected_length
                  \/ SubstringFrom(v, expected_start) # expected_value
        total_rows == CountNotNull(col)
        violations == ValuesAt(col, {i \in NotNullAt(col) : bad(col[i][1])})
        violation_count == Len(violations)
        status == IF violation_count = 0 THEN "PASS" ELSE "FAIL"
    IN Path(<<Q("count_not_null"), Q("violations"), Q("sample")>>,
            <<MakeResult(rule, "masking", status, total_rows, violation_count,
                         [masking_type |-> "ssn",
                          expected_format |-> expected_value,
                          violation_samples |-> FirstN(violations, 5)])>>,
            None)

PhonePath(rule, col) ==
    LET expected_value == Get(rule, "expected_pattern_value", Stars(4))
        expected_start == Get(rule, "expected_pattern_start", 5)
        bad(v) == SubstringLen(v, expected_start, Len(expected_value)) # expected_value
        total_rows == CountNotNull(col)
        violation_count == Len(ValuesAt(col, {i \in NotNullAt(col) : bad(col[i][1])}))
        status == IF violation_count = 0 THEN "PASS" ELSE "FAIL"
    IN Path(<<Q("count_not_null"), Q("violations")>>,
            <<MakeResult(rule, "masking", status, total_rows, violation_count,
                         [masking_type |-> "phone",
                          expected_format |-> expected_value])>>,
            None)

HashPath(rule, col) ==
    LET expected_length == Get(rule, "expected_length", 64)
        bad(v) == Len(v) # expected_length
                  \/ \E i \in 1..Len(v) : v[i] \notin HexChars
        total_rows == CountNotNull(col)
        violation_count == Len(ValuesAt(col, {i \in NotNullAt(col) : bad(col[i][1])}))
        status == IF violation_count = 0 THEN "PASS" ELSE "FAIL"
    IN Path(<<Q("count_not_null"), Q("violations")>>,
            <<MakeResult(rule, "masking", status, total_rows, violation_count,
                         [masking_type |-> "hash",
                          expected_hash_length |-> expected_length,
                          algorithm |-> "SHA-256"])>>,
            None)

LeakPath(rule, col) ==
    LET bad(v) == SubstringFrom(v, 8) # Stars(7) /\ Len(v) = 14
        total_rows == CountNotNull(col)
        leak_count == Len(ValuesAt(col, {i \in NotNullAt(col) : bad(col[i][1])}))
        status == IF leak_count = 0 THEN "PASS" ELSE "FAIL"
    IN Path(<<Q("count_not_null"), Q("leaks")>>,
            <<MakeResult(rule, "masking", status, total_rows, leak_count,
                         [masking_type |-> "leak_check"])>>,
            None)

MaskingRequired == <<"rule_id", "table", "column", "description">>

\* MaskingChecker: one iteration of the loop of run_checks; an unknown
\* masking_type is only logged (the log line reads rule["rule_id"])
RunMaskingRule(rule, col, failAt) ==
    LET masking_type == Get(rule, "masking_type", "") IN
    IF masking_type = "ssn"
    THEN Evaluate(rule, "masking", MaskingRequired, SsnPath(rule, col), failAt)
    ELSE IF masking_type = "phone"
    THEN Evaluate(rule, "masking", MaskingRequired, PhonePath(rule, col), failAt)
    ELSE IF masking_type = "hash"
    THEN Evaluate(rule, "masking", MaskingRequired, HashPath(rule, col), failAt)
    ELSE IF masking_type = "leak_check"
    THEN Evaluate(rule, "masking", MaskingRequired, LeakPath(rule, col), failAt)
    ELSE Evaluate(rule, "masking", <<"rule_id">>, Path(<<>>, <<>>, None), failAt)

(***************************************************************************)
(* Rules and data the checkers are run on.                                 *)
(***************************************************************************)
With(rule, k, v) == (k :> v) @@ rule
Without(rule, k) == [x \in DOMAIN rule \ {k} |-> rule[x]]

Families == {"count", "null", "duplicate", "range", "transform", "masking"}

CountBase == [rule_id |-> "CNT-001", description |-> "source vs target",
              source_table |-> "src", target_table |-> "tgt"]
NullBase == [rule_id |-> "NUL-001", description |-> "required column",
             table |-> "t", column |-> "c"]
DupBase == [rule_id |-> "DUP-100", description |-> "unique key",
            table |-> "t", columns |-> <<"email">>]
RangeBase == [rule_id |-> "RNG-100", description |-> "bounds",
              table |-> "t", column |-> "c"]
TransformBase == [rule_id |-> "TRF-001", description |-> "reconcile",
                  source_query |-> "src", target_query |-> "tgt",
                  compare_column |-> "v"]
MaskingBase == [rule_id |-> "MSK-001", description |-> "masked",
                table |-> "t", column |-> "c"]

\* duplicate_checker.py: DEFAULT_DUPLICATE_RULES
DEFAULT_DUPLICATE_RULES ==
    <<[rule_id |-> "DUP-001", description |-> "pk", table |-> "src_card_transactions",
       columns |-> <<"transaction_id">>, check_type |-> "pk"],
      [rule_id |-> "DUP-002", description |-> "composite",
       table |-> "src_card_transactions",
       columns |-> <<"customer_id", "merchant_id", "transaction_date",
                     "transaction_amount">>,
       check_type |-> "composite"],
      [rule_id |-> "DUP-003", description |-> "email", table |-> "src_customers",
       columns |-> <<"email">>, check_type |-> "unique"],
      [rule_id |-> "DUP-004", description |-> "resident number",
       table |-> "src_customers", columns |-> <<"resident_number">>,
       check_type |-> "unique"],
      [rule_id |-> "DUP-005", description |-> "merchant code",
       table |-> "src_merchants", columns |-> <<"merchant_code">>,
       check_type |-> "unique"]>>

\* range_checker.py: DEFAULT_RANGE_RULES; a date is the number yyyymmdd
DEFAULT_RANGE_RULES ==
    <<[rule_id |-> "RNG-001", description |-> "positive amount",
       table |-> "src_card_transactions", column |-> "transaction_amount",
       check_type |-> "positive", min_value |-> Some(0), max_value |-> None],
      [rule_id |-> "RNG-002", description |-> "amount cap",
       table |-> "src_card_transactions", column |-> "transaction_amount",
       check_type |-> "range", min_value |-> Some(0), max_value |-> Some(500000000)],
      [rule_id |-> "RNG-003", description |-> "date in 2024",
       table |-> "src_card_transactions", column |-> "transaction_date",
       check_type |-> "date_range", min_date |-> Some(20240101),
       max_date |-> Some(20241231)],
      [rule_id |-> "RNG-004", description |-> "no future date",
       table |-> "src_card_transactions", column |-> "transaction_date",
       check_type |-> "no_future"],
      [rule_id |-> "RNG-005", description |-> "installment months",
       table |-> "src_card_transactions", column |-> "installment_months",
       check_type |-> "range", min_value |-> Some(0), max_value |-> Some(36)],
      [rule_id |-> "RNG-006", description |-> "birth date",
       table |-> "src_customers", column |-> "birth_date",
       check_type |-> "date_range", min_date |-> Some(19200101),
       max_date |-> Some(20101231)],
      [rule_id |-> "FK-001", description |-> "merchant fk",
       table |-> "src_card_transactions", column |-> "merchant_id",
       check_type |-> "foreign_key", parent_table |-> "src_merchants",
       parent_column |-> "merchant_id"],
      [rule_id |-> "FK-002", description |-> "customer fk",
       table |-> "src_card_transactions", column |-> "customer_id",
       check_type |-> "foreign_key", parent_table |-> "src_customers",
       parent_column |-> "customer_id"]>>

\* a variant of Construct that falls back to the defaults only when no list
\* is passed
ConstructNoneOnly(fam, supplied) ==
    IF fam = "duplicate"
    THEN (IF supplied = None THEN DEFAULT_DUPLICATE_RULES ELSE supplied[1])
    ELSE IF fam = "range"
    THEN (IF supplied = None THEN DEFAULT_RANGE_RULES ELSE supplied[1])
    ELSE supplied[1]

\* BaseChecker.__init__, and  rules or DEFAULT_..._RULES  of the Duplicate
\* and Range checkers; supplied is None when no rule list is passed
Construct(fam, supplied) ==
    IF fam = "duplicate"
    THEN (IF supplied = None \/ supplied[1] = <<>>
          THEN DEFAULT_DUPLICATE_RULES ELSE supplied[1])
    ELSE IF fam = "range"
    THEN (IF supplied = None \/ supplied[1] = <<>>
          THEN DEFAULT_RANGE_RULES ELSE supplied[1])
    ELSE supplied[1]

\* the rules the run_checks loops are exercised with
RuleUniverse(fam) ==
    IF fam = "count"
    THEN {CountBase, With(CountBase, "threshold", <<1, 2>>),
          Without(CountBase, "target_table"), Without(CountBase, "rule_id")}
    ELSE IF fam = "null"
    THEN {NullBase,
          With(With(NullBase, "max_null_ratio", <<1, 3>>), "include_empty_string", TRUE),
          Without(NullBase, "column")}
    ELSE IF fam = "duplicate"
    THEN {DupBase, With(DupBase, "columns", <<"customer_id", "merchant_id">>),
          Without(DupBase, "columns")}
    ELSE IF fam = "range"
    THEN {With(RangeBase, "min_value", Some(0)),
          With(With(RangeBase, "check_type", "date_range"), "max_date", Some(20241231)),
          With(RangeBase, "check_type", "no_future"),
          With(With(With(RangeBase, "check_type", "foreign_key"),
                    "parent_table", "p"), "parent_column", "id"),
          With(RangeBase, "check_type", "foreign_key"),
          With(RangeBase, "check_type", "regex")}
    ELSE IF fam = "transform"
    THEN {TransformBase, With(TransformBase, "join_key", "k"),
          With(With(TransformBase, "join_key", "k"), "compare_type", "existence"),
          With(TransformBase, "compare_type", "existence")}
    ELSE {With(MaskingBase, "masking_type", "ssn"),
          With(MaskingBase, "masking_type", "phone"),
          With(MaskingBase, "masking_type", "hash"),
          With(MaskingBase, "masking_type", "leak_check"),
          With(MaskingBase, "masking_type", "email"),
          Without(With(MaskingBase, "masking_type", "ssn"), "table")}

\* rule lists of length 0..n over a universe
RuleLists(U, n) == UNION {[1..k -> U] : k \in 0..n}

DupColumns == {"transaction_id", "customer_id", "merchant_id", "transaction_date",
               "transaction_amount", "email", "resident_number", "merchant_code"}
\* a table row for the duplicate check: merchant_id holds y, every other column x
DupRow(x, y) == [c \in DupColumns |-> IF c = "merchant_id" THEN y ELSE x]

Masked14 == <<"9", "0", "1", "0", "1", "0", "-">> \o Stars(7)
Plain14 == <<"9", "0", "1", "0", "1", "0", "-", "1", "2", "3", "4", "5", "6", "7">>

\* the data a checker of each family is exercised on
Databases(fam) ==
    IF fam = "count"
    THEN {[src |-> {1, 2}, tgt |-> {1}, src_approx |-> None, tgt_approx |-> Some(1)],
          [src |-> {}, tgt |-> {3}, src_approx |-> Some(500001),
           tgt_approx |-> Some(500001)]}
    ELSE IF fam = "null"
    THEN {[col |-> <<>>],
          [col |-> <<NullCell, Text(<<" ">>), Text(<<"a">>)>>]}
    ELSE IF fam = "duplicate"
    THEN {[rows |-> <<DupRow(Some(1), Some(1)), DupRow(Some(1), None),
                      DupRow(Some(1), Some(1))>>],
          [rows |-> <<DupRow(Some(1), Some(1)), DupRow(None, Some(1))>>]}
    ELSE IF fam = "range"
    THEN {[col |-> <<Some(20240601), None, Some(-5)>>, parent |-> <<Some(-5), None>>,
           now |-> 20240101],
          [col |-> <<Some(7)>>, parent |-> <<Some(7)>>, now |-> 20261105]}
    ELSE IF fam = "transform"
    THEN {[source_rows |-> <<[k |-> IntKey(1), v |-> Some(100)],
                             [k |-> IntKey(2), v |-> None]>>,
           target_rows |-> <<[k |-> StrKey("1"), v |-> Some(101)]>>],
          [source_rows |-> <<>>, target_rows |-> <<>>]}
    ELSE {[col |-> <<Some(Masked14), None, Some(Plain14)>>],
          [col |-> <<Some(Masked14)>>]}

(***************************************************************************)
(* run_checks of a checker constructed on a rule list.                     *)
(***************************************************************************)
\* the iteration of the loop of run_checks on rules[idx], of any family
RunRule(fam, rule, d, failAt) ==
    IF fam = "count" THEN RunCountRule(rule, d, failAt)
    ELSE IF fam = "null" THEN RunNullRule(rule, d.col, failAt)
    ELSE IF fam = "duplicate" THEN RunDuplicateRule(rule, d.rows, failAt)
    ELSE IF fam = "range" THEN RunRangeRule(rule, d, failAt)
    ELSE IF fam = "transform" THEN RunTransformRule(rule, d, failAt)
    ELSE RunMaskingRule(rule, d.col, failAt)

Tagged(q, i) == [j \in 1..Len(q) |-> [rule |-> i, query |-> q[j]]]

\* a variant of Appended that inserts at the front
Prepended(res, o) == o.res \o res

\* self.results.append(result) for each result of the outcome
Appended(res, o) == res \o o.res

\* for rule in self.rules: one iteration, whatever the family
Iterate ==
    /\ pc = "run_checks"
    /\ idx <= Len(rules)
    /\ \E failAt \in 0..Len(RunRule(family, rules[idx], db, 0).q) :
          /\ failAt > 0 => faults > 0
          /\ faults' = IF failAt > 0 THEN faults - 1 ELSE faults
          /\ LET o == RunRule(family, rules[idx], db, failAt)
             IN /\ results' = Appended(results, o)
                /\ origin' = Appended(origin, [res |-> [j \in 1..Len(o.res) |-> idx]])
                /\ qlog' = qlog \o Tagged(o.q, idx)
    /\ idx' = idx + 1
    /\ UNCHANGED <<pc, family, rules, db, ret>>
    /\ UNCHANGED runVars

CountRule ==
    /\ family = "count"
    /\ Iterate

NullRule ==
    /\ family = "null"
    /\ Iterate

DuplicateRule ==
    /\ family = "duplicate"
    /\ Iterate

RangeRule ==
    /\ family = "range"
    /\ Iterate

TransformRule ==
    /\ family = "transform"
    /\ Iterate

MaskingRule ==
    /\ family = "masking"
    /\ Iterate

\* return self.results
Return ==
    /\ pc = "run_checks"
    /\ idx > Len(rules)
    /\ pc' = "returned"
    /\ UNCHANGED <<family, rules, idx, results, origin, qlog, db, faults, ret>>
    /\ UNCHANGED runVars

\* the state of the orchestrator when no run_validation is going on
NoRun ==
    /\ stage = "none"
    /\ attempt = 0
    /\ pool = FALSE
    /\ check_list = {}
    /\ all_rules = <<>>
    /\ report_type = "none"
    /\ cur = 0
    /\ called = {}
    /\ all_results = <<>>
    /\ summary = None
    /\ reported = {}
    /\ raised = None
    /\ slept = 0
    /\ exit_code = None

\* a checker constructed on a supplied rule list, about to run run_checks
Init ==
    /\ pc = "run_checks"
    /\ family \in Families
    /\ \E supplied \in {None} \cup {Some(l) : l \in RuleLists(RuleUniverse(family), MaxRules)} :
          /\ supplied = None => family \in {"duplicate", "range"}
          /\ rules = Construct(family, supplied)
    /\ idx = 1
    /\ results = <<>>
    /\ origin = <<>>
    /\ qlog = <<>>
    /\ db \in Databases(family)
    /\ faults = MaxFaults
    /\ ret = None
    /\ NoRun

Next ==
    \/ CountRule
    \/ NullRule
    \/ DuplicateRule
    \/ RangeRule
    \/ TransformRule
    \/ MaskingRule
    \/ Return

Spec == Init /\ [][Next]_vars

(***************************************************************************)
(* main.py: run_validation and main; db_connector.py: _init_pool           *)
(***************************************************************************)
max_retries == 10
retry_interval == 3

\* the order of the six  if "<family>" in check_list:  blocks
Order == <<"count", "null", "duplicate", "range", "transform", "masking">>

CountStatusOf(res, st) == Cardinality({i \in 1..Len(res) : res[i].status = st})

\* a variant of Summary that leaves the ERROR results out of the total
SummaryOfClassified(res) ==
    LET passed == CountStatusOf(res, "PASS")
        total == passed + CountStatusOf(res, "FAIL") + CountStatusOf(res, "WARNING")
    IN [total_checks |-> total,
        passed |-> passed,
        failed |-> CountStatusOf(res, "FAIL"),
        warnings |-> CountStatusOf(res, "WARNING"),
        errors |-> CountStatusOf(res, "ERROR"),
        pass_rate |-> IF total > 0 THEN Round2(<<passed * 100, total>>) ELSE Zero]

\* the summary of run_validation (and BaseChecker.get_summary)
Summary(res) ==
    LET total == Len(res)
        passed == CountStatusOf(res, "PASS")
    IN [total_checks |-> total,
        passed |-> passed,
        failed |-> CountStatusOf(res, "FAIL"),
        warnings |-> CountStatusOf(res, "WARNING"),
        errors |-> CountStatusOf(res, "ERROR"),
        pass_rate |-> IF total > 0 THEN Round2(<<passed * 100, total>>) ELSE Zero]

\* config = ConfigLoader(...); load_db_config; load_all_rules; get_report_dir
LoadConfig ==
    /\ stage = "config"
    /\ \/ /\ stage' = "connect"
          /\ attempt' = 1
          /\ raised' = raised
       \/ /\ stage' = "raised"
          /\ raised' = Some("Exception")
          /\ attempt' = attempt
    /\ UNCHANGED <<pool, check_list, all_rules, report_type, cur, called,
                   all_results, summary, reported, exit_code>>
    /\ UNCHANGED checkerVars
    /\ UNCHANGED ret
    /\ UNCHANGED slept

\* a variant of Attempt that gives up without raising
AttemptGivesUp ==
    /\ stage = "connect"
    /\ \E outcome \in {"ok", "MySQLError"} :
          IF outcome = "ok"
          THEN /\ pool' = TRUE
               /\ stage' = "checks"
               /\ attempt' = 0
               /\ cur' = 1
          ELSE IF attempt < max_retries
          THEN /\ stage' = "sleep"
               /\ UNCHANGED <<attempt, pool, cur>>
          ELSE /\ stage' = "checks"
               /\ attempt' = 0
               /\ cur' = 1
               /\ pool' = pool
    /\ UNCHANGED <<check_list, all_rules, report_type, called, all_results, summary,
                   reported, raised, exit_code>>
    /\ UNCHANGED checkerVars
    /\ UNCHANGED ret
    /\ slept' = IF stage' = "sleep" THEN slept ELSE 0

\* a variant of Attempt that gives up one attempt early
AttemptOneShort ==
    /\ stage = "connect"
    /\ \E outcome \in {"ok", "MySQLError", "other"} :
          IF outcome = "ok"
          THEN /\ pool' = TRUE
               /\ stage' = "checks"
               /\ attempt' = 0
               /\ cur' = 1
               /\ raised' = raised
          ELSE IF outcome = "other"
          THEN /\ raised' = Some("Exception")
               /\ stage' = "raised"
               /\ attempt' = 0
               /\ UNCHANGED <<pool, cur>>
          ELSE IF attempt < max_retries - 1
          THEN /\ stage' = "sleep"
               /\ UNCHANGED <<attempt, pool, cur, raised>>
          ELSE /\ raised' = Some("ConnectionError")
               /\ stage' = "raised"
               /\ attempt' = 0
               /\ UNCHANGED <<pool, cur>>
    /\ UNCHANGED <<check_list, all_rules, report_type, called, all_results, summary,
                   reported, exit_code>>
    /\ UNCHANGED checkerVars
    /\ UNCHANGED ret
    /\ slept' = IF stage' = "sleep" THEN slept ELSE 0

\* DBConnector(db_config): one attempt of the loop of _init_pool
Attempt ==
    /\ stage = "connect"
    /\ \E outcome \in {"ok", "MySQLError", "other"} :
          IF outcome = "ok"
          THEN /\ pool' = TRUE
               /\ stage' = "checks"
               /\ attempt' = 0
               /\ cur' = 1
               /\ raised' = raised
          ELSE IF outcome = "other"
          THEN /\ raised' = Some("Exception")
               /\ stage' = "raised"
               /\ attempt' = 0
               /\ UNCHANGED <<pool, cur>>
          ELSE IF attempt < max_retries
          THEN /\ stage' = "sleep"
               /\ UNCHANGED <<attempt, pool, cur, raised>>
          ELSE /\ raised' = Some("ConnectionError")
               /\ stage' = "raised"
               /\ attempt' = 0
               /\ UNCHANGED <<pool, cur>>
    /\ UNCHANGED <<check_list, all_rules, report_type, called, all_results, summary,
                   reported, exit_code>>
    /\ UNCHANGED checkerVars
    /\ UNCHANGED ret
    /\ slept' = IF stage' = "sleep" THEN slept ELSE 0

\* time.sleep(retry_interval), then the next iteration of the loop
Sleep ==
    /\ stage = "sleep"
    /\ attempt' = attempt + 1
    /\ stage' = "connect"
    /\ slept' = slept + retry_interval
    /\ UNCHANGED <<pool, check_list, all_rules, report_type, cur, called,
                   all_results, summary, reported, raised, exit_code>>
    /\ UNCHANGED checkerVars
    /\ UNCHANGED ret

\* the data each checker of a run finds in the database
RunDatabase(fam) == CHOOSE d \in Databases(fam) :
                       \A e \in Databases(fam) : e = d \/ e # d

\* if "<family>" in check_list: checker = <Family>Checker(db, ...);
\* the call of checker.run_checks() starts
EnterBlock ==
    /\ stage = "checks"
    /\ pc = "idle"
    /\ cur <= Len(Order)
    /\ Order[cur] \in check_list
    /\ family' = Order[cur]
    /\ rules' = Construct(Order[cur],
                          IF Order[cur] \in {"duplicate", "range"}
                          THEN None
                          ELSE Some(Get(all_rules, Order[cur], <<>>)))
    /\ idx' = 1
    /\ results' = <<>>
    /\ origin' = <<>>
    /\ qlog' = <<>>
    /\ db' = RunDatabase(Order[cur])
    /\ pc' = "run_checks"
    /\ called' = called \cup {Order[cur]}
    /\ UNCHANGED <<faults, ret, stage, attempt, pool, check_list, all_rules,
                   report_type, cur, all_results, summary, reported, raised, exit_code>>
    /\ UNCHANGED slept

\* the family is not in check_list: the block is skipped
SkipBlock ==
    /\ stage = "checks"
    /\ pc = "idle"
    /\ cur <= Len(Order)
    /\ Order[cur] \notin check_list
    /\ cur' = cur + 1
    /\ UNCHANGED <<stage, attempt, pool, check_list, all_rules, report_type,
                   called, all_results, summary, reported, raised, exit_code>>
    /\ UNCHANGED checkerVars
    /\ UNCHANGED ret
    /\ UNCHANGED slept

\* all_results.extend(checker.run_checks())
Extend ==
    /\ stage = "checks"
    /\ pc = "returned"
    /\ all_results' = all_results \o results
    /\ cur' = cur + 1
    /\ pc' = "idle"
    /\ UNCHANGED <<family, rules, idx, results, origin, qlog, db, faults, ret>>
    /\ UNCHANGED <<stage, attempt, pool, check_list, all_rules, report_type,
                   called, summary, reported, raised, exit_code>>
    /\ UNCHANGED slept

\* finally: db.close()
Close ==
    /\ stage = "checks"
    /\ pc = "idle"
    /\ cur > Len(Order)
    /\ pool' = FALSE
    /\ stage' = "summary"
    /\ UNCHANGED <<attempt, check_list, all_rules, report_type, cur, called,
                   all_results, summary, reported, raised, exit_code>>
    /\ UNCHANGED checkerVars
    /\ UNCHANGED ret
    /\ UNCHANGED slept

\* 4. the summary
Summarize ==
    /\ stage = "summary"
    /\ summary' = Some(Summary(all_results))
    /\ stage' = "report"
    /\ UNCHANGED <<attempt, pool, check_list, all_rules, report_type, cur,
                   called, all_results, reported, raised, exit_code>>
    /\ UNCHANGED checkerVars
    /\ UNCHANGED ret
    /\ UNCHANGED slept

\* 5. the reports; a reporter may raise
Report ==
    /\ stage = "report"
    /\ \/ /\ reported' = (IF report_type \in {"all", "html"} THEN {"html"} ELSE {})
                         \cup (IF report_type \in {"all", "csv"} THEN {"csv"} ELSE {})
          /\ stage' = "returned"
          /\ raised' = raised
       \/ /\ report_type # "none"
          /\ reported' = reported
          /\ stage' = "raised"
          /\ raised' = Some("Exception")
    /\ UNCHANGED <<attempt, pool, check_list, all_rules, report_type, cur,
                   called, all_results, summary, exit_code>>
    /\ UNCHANGED checkerVars
    /\ UNCHANGED ret
    /\ UNCHANGED slept

\* a variant of Exit that also fails the run on ERROR results
ExitCountsErrors ==
    /\ stage \in {"returned", "raised"}
    /\ exit_code' = IF stage = "returned"
                    THEN (IF summary[1].failed + summary[1].errors > 0
                          THEN Some(1) ELSE Some(0))
                    ELSE IF raised = Some("ConnectionError") THEN Some(2)
                    ELSE Some(3)
    /\ stage' = "exited"
    /\ UNCHANGED <<attempt, pool, check_list, all_rules, report_type, cur,
                   called, all_results, summary, reported, raised>>
    /\ UNCHANGED checkerVars
    /\ UNCHANGED ret
    /\ UNCHANGED slept

\* main: the exit status
Exit ==
    /\ stage \in {"returned", "raised"}
    /\ exit_code' = IF stage = "returned"
                    THEN (IF summary[1].failed > 0 THEN Some(1) ELSE Some(0))
                    ELSE IF raised = Some("ConnectionError") THEN Some(2)
                    ELSE Some(3)
    /\ stage' = "exited"
    /\ UNCHANGED <<attempt, pool, check_list, all_rules, report_type, cur,
                   called, all_results, summary, reported, raised>>
    /\ UNCHANGED checkerVars
    /\ UNCHANGED ret
    /\ UNCHANGED slept

\* the --checks arguments and configurations a run is started with
CheckLists == {Families, {"count"}, {"null", "masking"}, {"duplicate"}, {"range"},
               {"transform"}, {}}

Configurations ==
    {[count |-> <<>>, null |-> <<>>, transform |-> <<>>, masking |-> <<>>],
     [count |-> <<CountBase>>, null |-> <<NullBase>>,
      transform |-> <<With(TransformBase, "join_key", "k")>>,
      masking |-> <<With(MaskingBase, "masking_type", "ssn")>>],
     [count |-> <<Without(CountBase, "target_table"), CountBase>>,
      null |-> <<NullBase>>, transform |-> <<TransformBase>>,
      masking |-> <<With(MaskingBase, "masking_type", "email"),
                    With(MaskingBase, "masking_type", "leak_check")>>]}

\* main() is entered
InitRun ==
    /\ stage = "config"
    /\ attempt = 0
    /\ pool = FALSE
    /\ check_list \in CheckLists
    /\ all_rules \in Configurations
    /\ report_type \in {"all", "none"}
    /\ cur = 0
    /\ called = {}
    /\ all_results = <<>>
    /\ summary = None
    /\ reported = {}
    /\ raised = None
    /\ slept = 0
    /\ exit_code = None
    /\ pc = "idle"
    /\ family = "none"
    /\ rules = <<>>
    /\ idx = 0
    /\ results = <<>>
    /\ origin = <<>>
    /\ qlog = <<>>
    /\ db = <<>>
    /\ faults = MaxFaults
    /\ ret = None

NextRun ==
    \/ LoadConfig
    \/ Attempt
    \/ Sleep
    \/ EnterBlock
    \/ SkipBlock
    \/ CountRule
    \/ NullRule
    \/ DuplicateRule
    \/ RangeRule
    \/ TransformRule
    \/ MaskingRule
    \/ Return
    \/ Extend
    \/ Close
    \/ Summarize
    \/ Report
    \/ Exit

SpecRun == InitRun /\ [][NextRun]_vars

(***************************************************************************)
(* The count evaluator on every pair of small tables.                      *)
(***************************************************************************)
CountThresholds == {<<0, 1>>, <<1, 3>>, <<1, 2>>, <<1, 1>>, <<2, 1>>}
CountTables == {a..b : a \in {0, 1}, b \in 0..MaxCount}
Estimates == {None, Some(0), Some(CHUNK_THRESHOLD), Some(CHUNK_THRESHOLD + 1)}

CountRules ==
    LET thresholds == {CountBase} \cup {With(CountBase, "threshold", t) : t \in CountThresholds}
        filtered == thresholds
                    \cup {With(r, "where_clause", Some("transaction_id > 0")) : r \in thresholds}
    IN filtered
       \cup {With(With(r, "source_count_query", "s"), "target_count_query", "t") :
                r \in thresholds}

InitCount ==
    /\ pc = "run_checks"
    /\ family = "count"
    /\ \E r \in CountRules : rules = Construct("count", Some(<<r>>))
    /\ idx = 1
    /\ results = <<>>
    /\ origin = <<>>
    /\ qlog = <<>>
    /\ \E s \in CountTables, t \in CountTables, es \in Estimates, et \in Estimates :
          db = [src |-> s, tgt |-> t, src_approx |-> es, tgt_approx |-> et]
    /\ faults = 0
    /\ ret = None
    /\ NoRun

NextCount ==
    \/ CountRule
    \/ Return

SpecCount == InitCount /\ [][NextCount]_vars

(***************************************************************************)
(* The null evaluator on every small column.                               *)
(***************************************************************************)
NullThresholds == {<<-1, 2>>, <<0, 1>>, <<1, 4>>, <<1, 3>>, <<1, 2>>, <<1, 1>>}
NullValues == {NullCell, Text(<<>>), Text(<<" ">>), Text(<<"a">>), Text(<<" ", "a">>),
               Text(<<"\t">>)}

NullRules ==
    LET thresholds == {NullBase} \cup {With(NullBase, "max_null_ratio", t) : t \in NullThresholds}
    IN thresholds \cup {With(r, "include_empty_string", b) : r \in thresholds, b \in BOOLEAN}

InitNull ==
    /\ pc = "run_checks"
    /\ family = "null"
    /\ \E r \in NullRules : rules = Construct("null", Some(<<r>>))
    /\ idx = 1
    /\ results = <<>>
    /\ origin = <<>>
    /\ qlog = <<>>
    /\ \E n \in 0..MaxRows : \E col \in [1..n -> NullValues] : db = [col |-> col]
    /\ faults = 1
    /\ ret = None
    /\ NoRun

NextNull ==
    \/ NullRule
    \/ Return

SpecNull == InitNull /\ [][NextNull]_vars

(***************************************************************************)
(* execute_chunked_count called on every small table.                      *)
(***************************************************************************)
KeyRange == (-MaxKey)..MaxKey

InitChunk ==
    /\ pc = "call"
    /\ family = "none"
    /\ rules = <<>>
    /\ idx = 0
    /\ results = <<>>
    /\ origin = <<>>
    /\ qlog = <<>>
    /\ \E keys \in SUBSET KeyRange, chunk_size \in 1..MaxChunk :
          db = [keys |-> keys, chunk_size |-> chunk_size]
    /\ faults = 0
    /\ ret = None
    /\ NoRun

\* db.execute_chunked_count(table, chunk_size)
ChunkedCount ==
    /\ pc = "call"
    /\ ret' = Some(ExecuteChunkedCount(db.keys, db.chunk_size))
    /\ pc' = "returned"
    /\ UNCHANGED <<family, rules, idx, results, origin, qlog, db, faults>>
    /\ UNCHANGED runVars

NextChunk ==
    \/ ChunkedCount

SpecChunk == InitChunk /\ [][NextChunk]_vars

(***************************************************************************)
(* Properties of run_checks.                                               *)
(***************************************************************************)
\* the keys the evaluator a rule is dispatched to reads with rule[...]
RequiredKeys(fam, rule) ==
    IF fam = "count" THEN CountRequired
    ELSE IF fam = "null" THEN NullRequired
    ELSE IF fam = "duplicate" THEN DuplicateRequired
    ELSE IF fam = "range"
    THEN IF Get(rule, "check_type", "range") = "foreign_key" THEN FkRequired ELSE RangeRequired
    ELSE IF fam = "transform"
    THEN IF Get(rule, "compare_type", "value") = "existence" THEN ExistenceRequired
         ELSE IF Has(rule, "join_key") THEN JoinRequired
         ELSE AggregateRequired
    ELSE IF Get(rule, "masking_type", "") \in {"ssn", "phone", "hash", "leak_check"}
    THEN MaskingRequired
    ELSE <<"rule_id">>

ErrorShape(r, rule, text) ==
    /\ r.status = "ERROR"
    /\ r.rule_id = Get(rule, "rule_id", "UNKNOWN")
    /\ r.total_rows = 0
    /\ r.violation_count = 0
    /\ r.violation_ratio = Zero
    /\ r.details = [error |-> text]

IterationCatches ==
    idx' # idx =>
        LET rule == rules[idx]
            missing == FirstMissing(rule, RequiredKeys(family, rule))
            raises == missing # None \/ faults' < faults
        IN /\ idx' = idx + 1
           /\ pc' = "run_checks"
           /\ raises =>
                 /\ Len(results') = Len(results) + 1
                 /\ SubSeq(results', 1, Len(results)) = results
                 /\ ErrorShape(results'[Len(results')], rule,
                               IF missing # None THEN KeyError(missing[1])
                               ELSE ExecutorError)

\* C1: run_checks never raises: an iteration whose evaluation raises (a missing
\* rule key, a failing query) appends one ERROR result with total_rows 0,
\* violation_count 0 and details {error: text} for that rule and moves on to
\* the next rule; run_checks returns only after the last rule.
C1_NeverRaises ==
    /\ [](pc = "returned" => idx = Len(rules) + 1)
    /\ [][IterationCatches]_vars

C1_Witness ==
    /\ pc = "returned"
    /\ Len(results) = 2
    /\ origin = <<1, 2>>
    /\ results[1].status = "ERROR"
    /\ results[1].details = [error |-> ExecutorError]
    /\ results[2].status \in {"PASS", "FAIL", "WARNING"}

\* C2: the results list is in rule order: every result of rule i precedes
\* every result of rule j when i < j, and an appended result never moves.
C2_RuleOrder ==
    /\ [](\A i, j \in 1..Len(origin) : i < j => origin[i] <= origin[j])
    /\ [](Len(origin) = Len(results))
    /\ [][SubSeq(results', 1, Len(results)) = results]_vars

C2_Witness ==
    /\ Len(results) = 2
    /\ origin = <<1, 2>>
    /\ rules[1] # rules[2]
    /\ results[1].status # "ERROR"
    /\ results[2].status # "ERROR"

\* a rule whose sub-type tag names no evaluator
Unresolvable(fam, rule) ==
    \/ /\ fam = "masking"
       /\ Get(rule, "masking_type", "") \notin {"ssn", "phone", "hash", "leak_check"}
    \/ /\ fam = "range"
       /\ Get(rule, "check_type", "range") \notin
             {"range", "positive", "date_range", "no_future", "foreign_key"}

\* C3: a rule whose sub-type tag cannot be resolved (masking_type outside
\* ssn/phone/hash/leak_check, range check_type outside
\* range/positive/date_range/no_future/foreign_key) yields exactly one result,
\* an ERROR result, for that rule.
C3_UnresolvableTagIsError ==
    \A i \in 1..Len(rules) :
        (i < idx /\ Unresolvable(family, rules[i])) =>
            LET mine == {j \in 1..Len(origin) : origin[j] = i}
            IN /\ Cardinality(mine) = 1
               /\ \A j \in mine : results[j].status = "ERROR"

\* a masking rule of unknown masking_type has been iterated and left no
\* result; the rule after it was evaluated
C3_Witness ==
    /\ family = "masking"
    /\ pc = "returned"
    /\ Len(rules) = 2
    /\ Unresolvable(family, rules[1])
    /\ Has(rules[1], "rule_id")
    /\ Len(results) = 1
    /\ origin = <<2>>

(***************************************************************************)
(* Properties of run_validation.                                           *)
(***************************************************************************)
ConnectionFailed == raised = Some("ConnectionError")

\* C4: when the connection cannot be established (every one of the
\* max_retries attempts fails) run_validation raises ConnectionError before
\* any run_checks is called, any result is produced or any report is written;
\* rules are evaluated only under an established connection, where a failing
\* query only appends an ERROR result for its rule.
C4_ConnectionAbort ==
    /\ [](ConnectionFailed =>
             /\ called = {}
             /\ all_results = <<>>
             /\ results = <<>>
             /\ qlog = <<>>
             /\ summary = None
             /\ reported = {}
             /\ ~pool)
    /\ [](pc = "run_checks" => pool /\ raised = None)
    /\ [][(raised = None /\ ConnectionFailed') => (stage = "connect" /\ attempt = max_retries)]_vars
    /\ [][(stage = "connect" /\ attempt = max_retries) => (pool' \/ raised' # None)]_vars
    /\ [][faults' < faults =>
             /\ stage' = "checks"
             /\ raised' = None
             /\ Len(results') = Len(results) + 1
             /\ results'[Len(results')].status = "ERROR"
             /\ results'[Len(results')].details = [error |-> ExecutorError]]_vars

C4_Witness ==
    /\ ConnectionFailed
    /\ stage = "exited"
    /\ exit_code = Some(2)
    /\ check_list = Families
    /\ all_rules.count # <<>>

(***************************************************************************)
(* Properties of the count evaluator.                                      *)
(***************************************************************************)
\* the difference ratio of two counts
DiffRatio(s, t) ==
    IF s > 0 THEN <<Abs(s - t), s>>
    ELSE IF t = 0 THEN Zero
    ELSE One

Classified(r) == r.status # "ERROR"

\* C5: for every classified count result, with s = source_count and
\* t = target_count: diff_ratio is |s - t| / s when s > 0, 0 when s = t = 0
\* and 1 when s = 0 < t (reported rounded to 6 places); status is PASS iff
\* diff_ratio <= threshold and FAIL otherwise; violation_count is |s - t|.
C5_CountFormula ==
    \A i \in 1..Len(results) :
        Classified(results[i]) =>
            LET r == results[i]
                s == r.details.source_count
                t == r.details.target_count
                diff == DiffRatio(s, t)
                shown == r.details.diff_ratio
            IN /\ s >= 0 /\ t >= 0
               /\ shown[2] = 1000000
               /\ 2 * Abs(shown[1] * diff[2] - diff[1] * shown[2]) <= diff[2]
               /\ r.status = "PASS" <=> Leq(diff, r.details.threshold)
               /\ r.status = "FAIL" <=> ~Leq(diff, r.details.threshold)
               /\ r.violation_count = Abs(s - t)
               /\ (s = 0 /\ t = 0) => r.status = "PASS"

C5_Witness ==
    /\ Len(results) = 1
    /\ results[1].details.source_count = 0
    /\ results[1].details.target_count > 0
    /\ results[1].details.threshold = One
    /\ results[1].status = "PASS"
    /\ results[1].violation_count = results[1].details.target_count

C7_ViolationRatio ==
    \A i \in 1..Len(results) :
        LET r == results[i] IN
        /\ r.total_rows > 0 =>
              /\ r.violation_ratio[2] > 0
              /\ EqR(r.violation_ratio, <<r.violation_count, r.total_rows>>)
        /\ r.total_rows = 0 => r.violation_ratio = Zero
        /\ (/\ r.check_type \in {"null", "duplicate", "range", "masking"}
            /\ 0 <= r.violation_count
            /\ r.violation_count <= r.total_rows) =>
              /\ Leq(Zero, r.violation_ratio)
              /\ Leq(r.violation_ratio, One)

C7_Witness ==
    \E i \in 1..Len(results) :
        /\ Classified(results[i])
        /\ results[i].total_rows = 0
        /\ results[i].violation_count > 0
        /\ results[i].violation_ratio = Zero

(***************************************************************************)
(* Properties of execute_chunked_count.                                    *)
(***************************************************************************)
Chunks(q) == {i \in 1..Len(q) : q[i].q = "chunk"}

\* C8: for every table and every chunk_size >= 1 execute_chunked_count
\* returns the direct count of the table, its chunk ranges being contiguous,
\* of chunk_size keys each and covering [min(pk), max(pk)].
C8_ChunkedEqualsDirect ==
    pc = "returned" =>
        LET total == ret[1].total
            q == ret[1].q
        IN /\ total = ExecuteCount(db.keys, None)
           /\ \A k \in db.keys : \E i \in Chunks(q) : q[i].a <= k /\ k <= q[i].b
           /\ \A i \in Chunks(q) : q[i].b = q[i].a + db.chunk_size - 1
           /\ \A i, j \in Chunks(q) : j = i + 1 => q[j].a = q[i].b + 1

\* a table whose greatest key is 0 has been counted as empty
C8_Witness ==
    /\ pc = "returned"
    /\ db.keys = {-1, 0}
    /\ ret[1].total = 0
    /\ ExecuteCount(db.keys, None) = 2

(***************************************************************************)
(* Properties of the null evaluator.                                       *)
(***************************************************************************)
\* C9: for every classified null result on a non-empty table, with
\* ratio = null_count / total_rows and m = max_null_ratio: PASS iff
\* ratio <= m, WARNING iff m < ratio <= 2m, FAIL iff ratio > 2m and
\* ratio > m; exactly one of the three, and never WARNING when m = 0.
C9_NullBands ==
    \A i \in 1..Len(results) :
        (Classified(results[i]) /\ results[i].total_rows > 0) =>
            LET r == results[i]
                m == r.details.max_null_ratio
                ratio == <<r.violation_count, r.total_rows>>
                low == Leq(ratio, m)
                mid == ~Leq(ratio, m) /\ Leq(ratio, <<2 * m[1], m[2]>>)
            IN /\ r.total_rows = Len(db.col)
               /\ r.status \in {"PASS", "WARNING", "FAIL"}
               /\ r.status = "PASS" <=> low
               /\ r.status = "WARNING" <=> mid
               /\ r.status = "FAIL" <=> (~low /\ ~mid)
               /\ m = Zero => r.status # "WARNING"

C9_Witness ==
    /\ Len(results) = 1
    /\ results[1].status = "WARNING"
    /\ results[1].total_rows > 0
    /\ results[1].details.max_null_ratio = <<1, 3>>
    /\ EqR(<<results[1].violation_count, results[1].total_rows>>, <<2, 3>>)

\* C10: on a table of 0 rows the null evaluator issues the row count and
\* nothing else, and (unless that query fails) records one WARNING result
\* with total_rows 0, violation_count 0 and a message in details, whatever
\* max_null_ratio and include_empty_string are.
C10_EmptyTableWarning ==
    db.col = <<>> =>
        /\ \A i \in 1..Len(qlog) : qlog[i].query.q = "count"
        /\ Len(qlog) <= Len(rules)
        /\ \A i \in 1..Len(results) :
              Classified(results[i]) =>
                  /\ results[i].status = "WARNING"
                  /\ results[i].total_rows = 0
                  /\ results[i].violation_count = 0
                  /\ results[i].violation_ratio = Zero
                  /\ DOMAIN results[i].details = {"message"}
        /\ (idx > Len(rules) /\ faults = 1) =>
              /\ Len(results) = Len(rules)
              /\ \A i \in 1..Len(results) : Classified(results[i])

C10_Witness ==
    /\ db.col = <<>>
    /\ pc = "returned"
    /\ Len(results) = 1
    /\ results[1].status = "WARNING"
    /\ Get(rules[1], "include_empty_string", FALSE)
    /\ Get(rules[1], "max_null_ratio", Zero) = One
    /\ Len(qlog) = 1

\* a value that is empty once surrounding whitespace is removed
Whitespace == {" ", "\t"}
IsBlank(c) == ~c.null /\ \A i \in 1..Len(c.s) : c.s[i] \in Whitespace

\* C11: with include_empty_string the null evaluator counts the rows that are
\* null or empty after trimming surrounding whitespace, and details gives
\* pure_null_count and empty_string_count with
\* pure_null_count + empty_string_count = violation_count; without it only
\* the null rows are counted.
C11_NullOrBlankCounted ==
    \A i \in 1..Len(results) :
        (Classified(results[i]) /\ results[i].total_rows > 0) =>
            LET r == results[i]
                col == db.col
                nulls == Cardinality({k \in 1..Len(col) : col[k].null})
                blanks == Cardinality({k \in 1..Len(col) : IsBlank(col[k])})
            IN IF r.details.include_empty_string
               THEN /\ r.violation_count = nulls + blanks
                    /\ r.details.pure_null_count = nulls
                    /\ r.details.empty_string_count = blanks
                    /\ r.details.pure_null_count + r.details.empty_string_count
                          = r.violation_count
               ELSE r.violation_count = nulls

\* a value made of a tab only has been evaluated with include_empty_string
\* and was not counted
C11_Witness ==
    /\ db.col = <<Text(<<"\t">>)>>
    /\ Len(results) = 1
    /\ Classified(results[1])
    /\ results[1].details.include_empty_string
    /\ results[1].violation_count = 0
    /\ results[1].details.empty_string_count = 0

(***************************************************************************)
(* The duplicate evaluator on every small table.                           *)
(***************************************************************************)
DupRowValues == {DupRow(x, y) : x \in {None, Some(1), Some(2)}, y \in {None, Some(1)}}

DupRules == {DupBase, With(DupBase, "columns", <<"customer_id", "merchant_id">>)}

InitDup ==
    /\ pc = "run_checks"
    /\ family = "duplicate"
    /\ \E r \in DupRules : rules = Construct("duplicate", Some(<<r>>))
    /\ idx = 1
    /\ results = <<>>
    /\ origin = <<>>
    /\ qlog = <<>>
    /\ \E n \in 0..MaxDupRows : \E rows \in [1..n -> DupRowValues] : db = [rows |-> rows]
    /\ faults = 0
    /\ ret = None
    /\ NoRun

NextDup ==
    \/ DuplicateRule
    \/ Return

SpecDup == InitDup /\ [][NextDup]_vars

\* C12: over the rows whose key columns are all non-null, duplicate_groups is
\* the number of key tuples occurring more than once and duplicate_rows the
\* number of occurrences beyond the first of each; rows with a null key
\* column are in no group; violation_count = duplicate_rows, PASS iff
\* duplicate_rows = 0 iff duplicate_groups = 0; total_rows counts all rows.
C12_DuplicateCounts ==
    \A i \in 1..Len(results) :
        Classified(results[i]) =>
            LET r == results[i]
                rows == db.rows
                columns == r.details.columns
                live == {k \in 1..Len(rows) :
                            \A c \in 1..Len(columns) : rows[k][columns[c]] # None}
                same(k, l) == \A c \in 1..Len(columns) :
                                 rows[k][columns[c]] = rows[l][columns[c]]
                repeats == {k \in live : \E l \in live : l < k /\ same(k, l)}
                firsts == {k \in live : /\ \A l \in live : l < k => ~same(k, l)
                                        /\ \E l \in live : k < l /\ same(k, l)}
            IN /\ r.details.duplicate_groups = Cardinality(firsts)
               /\ r.details.duplicate_rows = Cardinality(repeats)
               /\ r.violation_count = r.details.duplicate_rows
               /\ r.status = "PASS" <=> r.details.duplicate_rows = 0
               /\ r.status = "FAIL" <=> r.details.duplicate_rows > 0
               /\ r.details.duplicate_rows = 0 <=> r.details.duplicate_groups = 0
               /\ r.total_rows = Len(rows)

C12_Witness ==
    /\ Len(results) = 1
    /\ Len(db.rows) = 4
    /\ results[1].details.duplicate_groups = 1
    /\ results[1].details.duplicate_rows = 2
    /\ results[1].total_rows = 4
    /\ \E k \in 1..4 : db.rows[k]["merchant_id"] = None
    /\ Len(results[1].details.columns) = 2

(***************************************************************************)
(* The range evaluators on every small column.                             *)
(***************************************************************************)
RangeValues == {None, Some(-1), Some(0), Some(1), Some(3)}
ParentValues == {None, Some(0), Some(1)}
LowerBounds == {None, Some(0), Some(1)}
UpperBounds == {None, Some(0), Some(2)}
DateBounds == {None, Some(1), Some(2)}

WithOpt(rule, k, vs) == {rule} \cup {With(rule, k, v) : v \in vs}

NumericRules ==
    UNION {UNION {WithOpt(r2, "max_value", UpperBounds) :
                     r2 \in WithOpt(r1, "min_value", LowerBounds)} :
              r1 \in {RangeBase, With(RangeBase, "check_type", "range"),
                      With(RangeBase, "check_type", "positive")}}

DateRules ==
    UNION {WithOpt(r, "max_date", DateBounds) :
              r \in WithOpt(With(RangeBase, "check_type", "date_range"),
                            "min_date", DateBounds)}

FkRule == With(With(With(RangeBase, "check_type", "foreign_key"),
                    "parent_table", "p"), "parent_column", "id")

NoFutureRule == With(RangeBase, "check_type", "no_future")

InitRange ==
    /\ pc = "run_checks"
    /\ family = "range"
    /\ idx = 1
    /\ results = <<>>
    /\ origin = <<>>
    /\ qlog = <<>>
    /\ \E r \in NumericRules \cup DateRules \cup {FkRule, NoFutureRule} :
       \E n \in 0..MaxRangeRows : \E col \in [1..n -> RangeValues] :
       \E m \in 0..MaxParentRows : \E parent \in [1..m -> ParentValues] :
       \E now \in {0, 1} :
          /\ r # FkRule => parent = <<>>
          /\ r # NoFutureRule => now = 0
          /\ rules = Construct("range", Some(<<r>>))
          /\ db = [col |-> col, parent |-> parent, now |-> now]
    /\ faults = 0
    /\ ret = None
    /\ NoRun

NextRange ==
    \/ RangeRule
    \/ Return

SpecRange == InitRange /\ [][NextRange]_vars

NonNull(col) == {k \in 1..Len(col) : col[k] # None}

\* C13: in the range/positive and date_range modes violation_count is the
\* number of non-null values below the configured minimum or above the
\* configured maximum, an unset bound is not checked (a minimum of 0 is; no
\* bound gives 0), nulls are never violations, total_rows is the number of
\* non-null values and the status is PASS iff violation_count = 0.
C13_RangeViolations ==
    \A i \in 1..Len(results) :
        (Classified(results[i]) /\ results[i].check_type = "range"
         /\ Get(rules[origin[i]], "check_type", "range") # "no_future") =>
            LET r == results[i]
                rule == rules[origin[i]]
                dates == Get(rule, "check_type", "range") = "date_range"
                lo == IF dates THEN Get(rule, "min_date", None)
                      ELSE Get(rule, "min_value", None)
                hi == IF dates THEN Get(rule, "max_date", None)
                      ELSE Get(rule, "max_value", None)
                below == {k \in NonNull(db.col) : lo # None /\ db.col[k][1] < lo[1]}
                above == {k \in NonNull(db.col) : hi # None /\ db.col[k][1] > hi[1]}
            IN /\ r.violation_count = Cardinality(below \cup above)
               /\ r.total_rows = Cardinality(NonNull(db.col))
               /\ r.status = "PASS" <=> r.violation_count = 0
               /\ r.status = "FAIL" <=> r.violation_count > 0
               /\ (lo = None /\ hi = None) => r.violation_count = 0

C13_Witness ==
    /\ Len(results) = 1
    /\ Get(rules[1], "check_type", "range") = "positive"
    /\ Get(rules[1], "min_value", None) = Some(0)
    /\ Get(rules[1], "max_value", None) = None
    /\ db.col = <<Some(-1), None, Some(0)>>
    /\ results[1].violation_count = 1
    /\ results[1].total_rows = 2
    /\ results[1].status = "FAIL"

\* C14: in the foreign_key mode violation_count = details.orphan_count is the
\* number of child rows whose value is non-null and equals no parent value,
\* total_rows is the number of non-null child values, a null child value is
\* never an orphan, the status is PASS iff there is no orphan, and
\* violation_count <= total_rows.
C14_ForeignKeyOrphans ==
    \A i \in 1..Len(results) :
        (Classified(results[i]) /\ results[i].check_type = "foreign_key") =>
            LET r == results[i]
                orphans == {k \in NonNull(db.col) :
                               \A p \in 1..Len(db.parent) :
                                  db.parent[p] = None \/ db.parent[p][1] # db.col[k][1]}
            IN /\ r.violation_count = Cardinality(orphans)
               /\ r.details.orphan_count = r.violation_count
               /\ r.total_rows = Cardinality(NonNull(db.col))
               /\ r.status = "PASS" <=> r.violation_count = 0
               /\ r.status = "FAIL" <=> r.violation_count > 0
               /\ r.violation_count <= r.total_rows

C14_Witness ==
    /\ Len(results) = 1
    /\ results[1].check_type = "foreign_key"
    /\ db.col = <<Some(3), None, Some(1)>>
    /\ db.parent = <<None, Some(1)>>
    /\ results[1].violation_count = 1
    /\ results[1].total_rows = 2
    /\ results[1].status = "FAIL"

(***************************************************************************)
(* TransformChecker, aggregate comparison, on one rule                     *)
(***************************************************************************)
MaxAggRows == 1

AggValues == {None, Some(0), Some(99), Some(100), Some(101), Some(-100)}
AggTolerances == {<<0, 1>>, <<1, 200>>, <<1, 100>>, <<1, 50>>}
AggRules == WithOpt(TransformBase, "tolerance", AggTolerances)
AggRows == UNION {[1..n -> {[k |-> NullKey, v |-> v] : v \in AggValues}] :
                     n \in 0..MaxAggRows}

InitAggregate ==
    /\ pc = "run_checks"
    /\ family = "transform"
    /\ idx = 1
    /\ results = <<>>
    /\ origin = <<>>
    /\ qlog = <<>>
    /\ \E r \in AggRules : \E s \in AggRows : \E t \in AggRows :
          /\ rules = Construct("transform", Some(<<r>>))
          /\ db = [source_rows |-> s, target_rows |-> t]
    /\ faults = 0
    /\ ret = None
    /\ NoRun

NextAggregate ==
    \/ TransformRule
    \/ Return

SpecAggregate == InitAggregate /\ [][NextAggregate]_vars

IsAggregate(rule) ==
    Get(rule, "compare_type", "value") # "existence" /\ ~Has(rule, "join_key")

\* C15: the aggregate comparison gives WARNING (never FAIL) when either query
\* returns no rows or either compared value is null; otherwise, with a source
\* value of 0 it gives PASS iff the target value is 0, and with any other
\* source value PASS iff |source - target| / |source| <= tolerance (0 when the
\* rule has none) and FAIL if not: 100 against 101 passes at a tolerance of
\* 0.02 and fails at 0.005.
C15_AggregateCompare ==
    \A i \in 1..Len(results) :
        (Classified(results[i]) /\ IsAggregate(rules[origin[i]])) =>
            LET r == results[i]
                tol == Get(rules[origin[i]], "tolerance", <<0, 1>>)
                empty == db.source_rows = <<>> \/ db.target_rows = <<>>
            IN IF empty \/ db.source_rows[1].v = None \/ db.target_rows[1].v = None
               THEN r.status = "WARNING"
               ELSE LET s == db.source_rows[1].v[1]
                        t == db.target_rows[1].v[1]
                        within == Abs(s - t) * tol[2] <= tol[1] * Abs(s)
                    IN /\ r.status \in {"PASS", "FAIL"}
                       /\ s = 0 => (r.status = "PASS" <=> t = 0)
                       /\ s # 0 => (r.status = "PASS" <=> within)
                       /\ (s = 100 /\ t = 101 /\ tol = <<1, 50>>) => r.status = "PASS"
                       /\ (s = 100 /\ t = 101 /\ tol = <<1, 200>>) => r.status = "FAIL"

C15_Witness ==
    /\ Len(results) = 1
    /\ IsAggregate(rules[1])
    /\ Get(rules[1], "tolerance", <<0, 1>>) = <<1, 50>>
    /\ Len(db.source_rows) = 1
    /\ Len(db.target_rows) = 1
    /\ db.source_rows[1].v = Some(100)
    /\ db.target_rows[1].v = Some(101)
    /\ results[1].status = "PASS"

(***************************************************************************)
(* TransformChecker, join and existence comparison, on one rule            *)
(***************************************************************************)
MaxJoinRows == 2

SourceRowValues == {[k |-> IntKey(1), v |-> None], [k |-> IntKey(1), v |-> Some(1)],
                    [k |-> IntKey(2), v |-> None], [k |-> IntKey(2), v |-> Some(1)],
                    [k |-> StrKey("1"), v |-> Some(3)]}
TargetRowValues == {[k |-> StrKey("1"), v |-> None], [k |-> StrKey("1"), v |-> Some(1)],
                    [k |-> StrKey("1"), v |-> Some(3)], [k |-> IntKey(2), v |-> Some(2)],
                    [k |-> NullKey, v |-> Some(1)]}
JoinTolerances == {<<1, 1>>, <<2, 1>>}
JoinRules == WithOpt(With(TransformBase, "join_key", "id"), "tolerance", JoinTolerances)
ExistenceRule == With(With(TransformBase, "join_key", "id"), "compare_type", "existence")

InitJoin ==
    /\ pc = "run_checks"
    /\ family = "transform"
    /\ idx = 1
    /\ results = <<>>
    /\ origin = <<>>
    /\ qlog = <<>>
    /\ \E r \in JoinRules \cup {ExistenceRule} :
       \E n \in 0..MaxJoinRows : \E s \in [1..n -> SourceRowValues] :
       \E m \in 0..MaxJoinRows : \E t \in [1..m -> TargetRowValues] :
          /\ rules = Construct("transform", Some(<<r>>))
          /\ db = [source_rows |-> s, target_rows |-> t]
    /\ faults = 0
    /\ ret = None
    /\ NoRun

NextJoin ==
    \/ TransformRule
    \/ Return

SpecJoin == InitJoin /\ [][NextJoin]_vars

IsJoin(rule) ==
    Get(rule, "compare_type", "value") # "existence" /\ Has(rule, "join_key")

IsExistence(rule) == Get(rule, "compare_type", "value") = "existence"

\* the keys of a query result, as strings
KeyTexts(rows) == {Str(rows[i].k) : i \in 1..Len(rows)}

\* the value a query result gives for a key: that of its last row with the key
ValueOf(rows, key) ==
    rows[SetMax({i \in 1..Len(rows) : Str(rows[i].k) = key})].v

\* C16: in the join comparison the keys are compared as strings; a key of the
\* union is a mismatch iff it is on exactly one side, or on both sides with
\* exactly one value null, or on both with two non-null values further apart
\* than the tolerance (two nulls are no mismatch). violation_count =
\* missing_in_target + missing_in_source + the value mismatches, total_rows
\* is the size of the key union, violation_count <= total_rows and the status
\* is PASS iff violation_count = 0.
C16_JoinMismatches ==
    \A i \in 1..Len(results) :
        (Classified(results[i]) /\ IsJoin(rules[origin[i]])) =>
            LET r == results[i]
                tol == Get(rules[origin[i]], "tolerance", <<0, 1>>)
                S == KeyTexts(db.source_rows)
                T == KeyTexts(db.target_rows)
                differ == {key \in S \cap T :
                              LET a == ValueOf(db.source_rows, key)
                                  b == ValueOf(db.target_rows, key)
                              IN \/ (a = None) # (b = None)
                                 \/ /\ a # None
                                    /\ b # None
                                    /\ Abs(a[1] - b[1]) * tol[2] > tol[1]}
            IN /\ r.details.missing_in_target = Cardinality(S \ T)
               /\ r.details.missing_in_source = Cardinality(T \ S)
               /\ r.violation_count = Cardinality(S \ T) + Cardinality(T \ S)
                                      + Cardinality(differ)
               /\ r.total_rows = Cardinality(S \cup T)
               /\ r.violation_count <= r.total_rows
               /\ r.status = "PASS" <=> r.violation_count = 0
               /\ r.status = "FAIL" <=> r.violation_count > 0

C16_Witness ==
    /\ Len(results) = 1
    /\ IsJoin(rules[1])
    /\ Get(rules[1], "tolerance", <<0, 1>>) = <<1, 1>>
    /\ db.source_rows = <<[k |-> IntKey(1), v |-> Some(1)], [k |-> IntKey(2), v |-> None]>>
    /\ db.target_rows = <<[k |-> StrKey("1"), v |-> Some(3)], [k |-> NullKey, v |-> Some(1)]>>
    /\ results[1].violation_count = 3
    /\ results[1].total_rows = 3
    /\ results[1].details.missing_in_target = 1
    /\ results[1].details.missing_in_source = 1
    /\ results[1].status = "FAIL"

\* C18: in the existence comparison violation_count is the number of distinct
\* source keys absent from the target and the status is PASS iff it is 0; the
\* keys only the target has are reported in details.missing_in_source and
\* change neither the status nor violation_count; total_rows is the number of
\* distinct source keys.
C18_ExistenceOneSided ==
    \A i \in 1..Len(results) :
        (Classified(results[i]) /\ IsExistence(rules[origin[i]])) =>
            LET r == results[i]
                S == KeyTexts(db.source_rows)
                T == KeyTexts(db.target_rows)
            IN /\ r.violation_count = Cardinality(S \ T)
               /\ r.details.missing_in_target = Cardinality(S \ T)
               /\ r.details.missing_in_source = Cardinality(T \ S)
               /\ r.total_rows = Cardinality(S)
               /\ r.status = "PASS" <=> r.violation_count = 0
               /\ r.status = "FAIL" <=> r.violation_count > 0

C18_Witness ==
    /\ Len(results) = 1
    /\ IsExistence(rules[1])
    /\ db.source_rows = <<[k |-> IntKey(1), v |-> Some(1)], [k |-> IntKey(1), v |-> None]>>
    /\ db.target_rows = <<[k |-> StrKey("1"), v |-> Some(3)], [k |-> NullKey, v |-> Some(1)]>>
    /\ results[1].violation_count = 0
    /\ results[1].total_rows = 1
    /\ results[1].details.missing_in_source = 1
    /\ results[1].status = "PASS"

(***************************************************************************)
(* TransformChecker, join comparison of two results with the keys 1..n     *)
(***************************************************************************)
MaxSampleKeys == 6

\* the source and target value of one key
SamplePairs == {<<Some(1), None>>, <<None, Some(1)>>, <<Some(1), Some(2)>>,
                <<Some(1), Some(1)>>}

InitSample ==
    /\ pc = "run_checks"
    /\ family = "transform"
    /\ idx = 1
    /\ results = <<>>
    /\ origin = <<>>
    /\ qlog = <<>>
    /\ \E n \in 0..MaxSampleKeys : \E pairs \in [1..n -> SamplePairs] :
          /\ rules = Construct("transform",
                               Some(<<With(TransformBase, "join_key", "id")>>))
          /\ db = [source_rows |-> [i \in 1..n |-> [k |-> IntKey(i), v |-> pairs[i][1]]],
                   target_rows |-> [i \in 1..n |-> [k |-> IntKey(i), v |-> pairs[i][2]]]]
    /\ faults = 0
    /\ ret = None
    /\ NoRun

NextSample ==
    \/ TransformRule
    \/ Return

SpecSample == InitSample /\ [][NextSample]_vars

\* C17: in the join comparison details.value_mismatches_sample holds at most
\* 5 entries, whatever the kind of the value mismatches.
C17_SampleAtMostFive ==
    \A i \in 1..Len(results) :
        (Classified(results[i]) /\ IsJoin(rules[origin[i]])) =>
            Len(results[i].details.value_mismatches_sample) <= 5

\* six keys with a value on one side only: the sample holds all six
C17_Witness ==
    /\ Len(results) = 1
    /\ IsJoin(rules[1])
    /\ Len(db.source_rows) = 6
    /\ \A i \in 1..6 : (db.source_rows[i].v = None) # (db.target_rows[i].v = None)
    /\ results[1].violation_count = 6
    /\ Len(results[1].details.value_mismatches_sample) = 6

(***************************************************************************)
(* MaskingChecker on one rule                                              *)
(***************************************************************************)
MaxMaskRows == 2

Masked13 == <<"9", "0", "1", "0", "1", "0", "-">> \o Stars(6)
MaskValues == {None, Some(Masked14), Some(Plain14), Some(Masked13),
               Some(<<"a", "#", "#">>), Some(<<"a", "b", "c">>)}

MaskRules ==
    UNION {UNION {UNION {WithOpt(r3, "expected_pattern_value", {<<"#", "#">>}) :
                            r3 \in WithOpt(r2, "expected_pattern_start", {2})} :
                     r2 \in WithOpt(r1, "expected_length", {3})} :
              r1 \in {With(MaskingBase, "masking_type", "ssn"),
                      With(MaskingBase, "masking_type", "phone"),
                      With(MaskingBase, "masking_type", "hash"),
                      With(MaskingBase, "masking_type", "leak_check")}}

InitMask ==
    /\ pc = "run_checks"
    /\ family = "masking"
    /\ idx = 1
    /\ results = <<>>
    /\ origin = <<>>
    /\ qlog = <<>>
    /\ \E r \in MaskRules : \E n \in 0..MaxMaskRows : \E col \in [1..n -> MaskValues] :
          /\ rules = Construct("masking", Some(<<r>>))
          /\ db = [col |-> col]
    /\ faults = 0
    /\ ret = None
    /\ NoRun

NextMask ==
    \/ MaskingRule
    \/ Return

SpecMask == InitMask /\ [][NextMask]_vars

\* the offset, mask literal and length a rule configures for the ssn check
MaskOffset(rule) == Get(rule, "expected_pattern_start", 8)
MaskLiteral(rule) == Get(rule, "expected_pattern_value",
                         <<"*", "*", "*", "*", "*", "*", "*">>)
MaskLength(rule) == Get(rule, "expected_length", 14)

\* the characters of v from the 1-based position p on
TailFrom(v, p) == [j \in 1..(IF Len(v) >= p THEN Len(v) - p + 1 ELSE 0) |-> v[p + j - 1]]

\* C19: in the ssn check a non-null value is a violation iff its length
\* differs from expected_length (default 14) or its substring from the
\* configured offset (default 8) differs from the configured mask literal
\* (default seven asterisks); total_rows is the number of non-null values and
\* the status is PASS iff violation_count = 0. A 14-character value masked
\* from position 8 is no violation, one with an unmasked tail is.
C19_SsnViolations ==
    \A i \in 1..Len(results) :
        (Classified(results[i]) /\ Get(rules[origin[i]], "masking_type", "") = "ssn") =>
            LET r == results[i]
                rule == rules[origin[i]]
                bad == {k \in NonNull(db.col) :
                           \/ Len(db.col[k][1]) # MaskLength(rule)
                           \/ TailFrom(db.col[k][1], MaskOffset(rule)) # MaskLiteral(rule)}
            IN /\ r.violation_count = Cardinality(bad)
               /\ r.total_rows = Cardinality(NonNull(db.col))
               /\ r.status = "PASS" <=> r.violation_count = 0
               /\ r.status = "FAIL" <=> r.violation_count > 0
               /\ rule = With(MaskingBase, "masking_type", "ssn") =>
                     \A k \in NonNull(db.col) :
                        /\ db.col[k][1] = Masked14 => k \notin bad
                        /\ db.col[k][1] = Plain14 => k \in bad

C19_Witness ==
    /\ Len(results) = 1
    /\ rules[1] = With(MaskingBase, "masking_type", "ssn")
    /\ db.col = <<Some(Masked14), Some(Plain14)>>
    /\ results[1].violation_count = 1
    /\ results[1].total_rows = 2
    /\ results[1].status = "FAIL"

\* C20: in the leak_check violation_count is the number of non-null values
\* whose length equals the expected masked length of the rule and whose
\* substring from the configured offset of the rule differs from its
\* configured mask literal, with the offset, literal and length the rule
\* configures for the ssn check (defaults 8, seven asterisks, 14); the status
\* is PASS iff that number is 0.
C20_LeakUsesRuleSettings ==
    \A i \in 1..Len(results) :
        (Classified(results[i])
         /\ Get(rules[origin[i]], "masking_type", "") = "leak_check") =>
            LET r == results[i]
                rule == rules[origin[i]]
                leaks == {k \in NonNull(db.col) :
                             /\ Len(db.col[k][1]) = MaskLength(rule)
                             /\ TailFrom(db.col[k][1], MaskOffset(rule)) # MaskLiteral(rule)}
            IN /\ r.violation_count = Cardinality(leaks)
               /\ r.status = "PASS" <=> r.violation_count = 0

\* a rule configured for three-character values masked by "##" from position
\* 2: the unmasked value "abc" passes
C20_Witness ==
    /\ Len(results) = 1
    /\ Get(rules[1], "masking_type", "") = "leak_check"
    /\ MaskLength(rules[1]) = 3
    /\ MaskOffset(rules[1]) = 2
    /\ MaskLiteral(rules[1]) = <<"#", "#">>
    /\ db.col = <<Some(<<"a", "b", "c">>)>>
    /\ results[1].violation_count = 0
    /\ results[1].status = "PASS"

IsMaskingType(rule) ==
    Get(rule, "masking_type", "") \in {"ssn", "phone", "hash", "leak_check"}

\* C21: each of the four masking checks (ssn, phone, hash, leak_check) records
\* in the details of its result a list of at most 5 sample violating values,
\* which is non-empty whenever violation_count > 0, and its status is PASS
\* iff violation_count = 0.
C21_SamplesRecorded ==
    \A i \in 1..Len(results) :
        (Classified(results[i]) /\ IsMaskingType(rules[origin[i]])) =>
            LET r == results[i]
            IN /\ "violation_samples" \in DOMAIN r.details
               /\ Len(r.details.violation_samples) <= 5
               /\ r.violation_count > 0 => Len(r.details.violation_samples) > 0
               /\ r.status = "PASS" <=> r.violation_count = 0

\* a phone rule on a column with one unmasked value: a FAIL result whose
\* details hold no sample list
C21_Witness ==
    /\ Len(results) = 1
    /\ rules[1] = With(MaskingBase, "masking_type", "phone")
    /\ db.col = <<Some(Plain14)>>
    /\ results[1].violation_count = 1
    /\ results[1].status = "FAIL"
    /\ "violation_samples" \notin DOMAIN results[1].details

(***************************************************************************)
(* BaseChecker.get_summary on every small result collection                *)
(***************************************************************************)
MaxResults == 4

ResultOf(st) == IF st = "ERROR" THEN MakeErrorResult(CountBase, "count", "failed")
                ELSE MakeResult(CountBase, "count", st, 0, 0, <<>>)

InitSummary ==
    /\ pc = "returned"
    /\ family = "count"
    /\ rules = <<>>
    /\ idx = 1
    /\ \E n \in 0..MaxResults : \E sts \in [1..n -> CheckStatus] :
          results = [i \in 1..n |-> ResultOf(sts[i])]
    /\ origin = <<>>
    /\ qlog = <<>>
    /\ db = <<>>
    /\ faults = 0
    /\ ret = None
    /\ NoRun

\* checker.get_summary()
GetSummary ==
    /\ pc = "returned"
    /\ stage = "none"
    /\ summary = None
    /\ summary' = Some(Summary(results))
    /\ UNCHANGED <<stage, attempt, pool, check_list, all_rules, report_type, cur,
                   called, all_results, reported, raised, exit_code>>
    /\ UNCHANGED checkerVars
    /\ UNCHANGED ret
    /\ UNCHANGED slept

NextSummary == GetSummary

SpecSummary == InitSummary /\ [][NextSummary]_vars

WithStatus(res, st) == {i \in 1..Len(res) : res[i].status = st}

\* C22: the summary of a result collection has total_checks = the number of
\* results; passed, failed, warnings and errors count the results of each
\* status and add up to total_checks; pass_rate is passed / total * 100
\* rounded to 2 decimals when total > 0 and 0 when total = 0. 2 PASS, 1 FAIL
\* and 1 ERROR give total 4 and pass_rate 50.0.
C22_SummaryCounts ==
    summary # None =>
        LET s == summary[1]
            t == Len(results)
            p == Cardinality(WithStatus(results, "PASS"))
        IN /\ s.total_checks = t
           /\ s.passed = p
           /\ s.failed = Cardinality(WithStatus(results, "FAIL"))
           /\ s.warnings = Cardinality(WithStatus(results, "WARNING"))
           /\ s.errors = Cardinality(WithStatus(results, "ERROR"))
           /\ s.passed + s.failed + s.warnings + s.errors = s.total_checks
           /\ t = 0 => s.pass_rate[1] = 0
           /\ t > 0 => /\ s.pass_rate[2] = 100
                       /\ 2 * Abs(s.pass_rate[1] * t - 10000 * p) <= t
           /\ (t = 4 /\ p = 2 /\ s.failed = 1 /\ s.errors = 1) =>
                 s.pass_rate[1] * 1 = 50 * s.pass_rate[2]

C22_Witness ==
    /\ summary # None
    /\ Len(results) = 4
    /\ Cardinality(WithStatus(results, "PASS")) = 2
    /\ Cardinality(WithStatus(results, "FAIL")) = 1
    /\ Cardinality(WithStatus(results, "ERROR")) = 1
    /\ summary[1].total_checks = 4
    /\ summary[1].pass_rate = <<5000, 100>>

(***************************************************************************)
(* Properties of main.                                                     *)
(***************************************************************************)
\* C23: a completed run exits with 1 iff at least one result is FAIL and with
\* 0 otherwise, so WARNING or ERROR results alone leave the exit status 0; a
\* failure to establish the connection exits with 2 and any other exception
\* with 3; a run ends in exactly one of the four outcomes.
C23_ExitStatus ==
    /\ exit_code # None <=> stage = "exited"
    /\ stage = "exited" =>
          /\ exit_code \in {Some(0), Some(1), Some(2), Some(3)}
          /\ exit_code = Some(1) <=>
                (raised = None /\ WithStatus(all_results, "FAIL") # {})
          /\ exit_code = Some(0) <=>
                (raised = None /\ WithStatus(all_results, "FAIL") = {})
          /\ exit_code = Some(2) <=> raised = Some("ConnectionError")
          /\ exit_code = Some(3) <=> raised = Some("Exception")
          /\ raised = None => (summary # None /\ ~pool)
          /\ raised = Some("ConnectionError") => (~pool /\ called = {})

\* a completed run with an ERROR result and no FAIL result exits with 0
C23_Witness ==
    /\ stage = "exited"
    /\ raised = None
    /\ WithStatus(all_results, "ERROR") # {}
    /\ WithStatus(all_results, "FAIL") = {}
    /\ exit_code = Some(0)

(***************************************************************************)
(* One rule evaluated twice by the same checker on unchanged tables, the   *)
(* database clock running on.                                              *)
(***************************************************************************)
MaxNow == 2
MaxTwiceRows == 2

TwiceDatabases(fam) ==
    IF fam = "range"
    THEN {[col |-> col, parent |-> <<Some(1)>>, now |-> 0] :
             col \in UNION {[1..n -> {None, Some(0), Some(1), Some(2)}] :
                               n \in 0..MaxTwiceRows}}
    ELSE Databases(fam)

InitTwice ==
    /\ pc = "run_checks"
    /\ family \in Families
    /\ \E r \in RuleUniverse(family) : rules = Construct(family, Some(<<r, r>>))
    /\ idx = 1
    /\ results = <<>>
    /\ origin = <<>>
    /\ qlog = <<>>
    /\ db \in TwiceDatabases(family)
    /\ faults = 0
    /\ ret = None
    /\ NoRun

\* the clock NOW() reads moves on; no table changes
Tick ==
    /\ pc = "run_checks"
    /\ family = "range"
    /\ db.now < MaxNow
    /\ db' = [db EXCEPT !.now = @ + 1]
    /\ UNCHANGED <<pc, family, rules, idx, results, origin, qlog, faults, ret>>
    /\ UNCHANGED runVars

NextTwice ==
    \/ CountRule
    \/ NullRule
    \/ DuplicateRule
    \/ RangeRule
    \/ TransformRule
    \/ MaskingRule
    \/ Tick
    \/ Return

SpecTwice == InitTwice /\ [][NextTwice]_vars

\* C24: for every rule of every family (no_future rules and masking rules
\* with violation samples included) evaluating the rule twice against the
\* same unchanged data gives two results with the same status,
\* violation_count and details.
C24_SameResultTwice ==
    (Len(results) = 2 /\ origin = <<1, 2>>) =>
        /\ results[1].status = results[2].status
        /\ results[1].violation_count = results[2].violation_count
        /\ results[1].details = results[2].details

\* a no_future rule on the one value 1: a violation at time 0, none at time 1
C24_Witness ==
    /\ Len(results) = 2
    /\ rules[1] = With(RangeBase, "check_type", "no_future")
    /\ rules[2] = rules[1]
    /\ db.col = <<Some(1)>>
    /\ results[1].status = "FAIL"
    /\ results[1].violation_count = 1
    /\ results[2].status = "PASS"
    /\ results[2].violation_count = 0

(***************************************************************************)
(* Properties of _get_count.                                               *)
(***************************************************************************)
\* the positions of the queries named name in the log
Asked(name) == {j \in 1..Len(qlog) : qlog[j].query.q = name}

\* whether a table with the estimate e is to be counted in chunks
Large(e, rule) == e # None /\ e[1] > 500000 /\ ~Has(rule, "where_clause")

InitChunkLoop == InitChunk

\* min_id, max_id = ...; if max_id == 0: return 0; total_count = 0;
\* current_start = min_id
ChunkEnter ==
    /\ pc = "call"
    /\ LET min_id == OrZero(ScalarMin(db.keys))
           max_id == OrZero(ScalarMax(db.keys))
       IN /\ ret' = Some([total |-> 0, q |-> <<Q("min"), Q("max")>>])
          /\ IF max_id = 0
             THEN /\ pc' = "returned"
                  /\ idx' = idx
             ELSE /\ pc' = "loop"
                  /\ idx' = min_id
    /\ UNCHANGED <<family, rules, results, origin, qlog, db, faults>>
    /\ UNCHANGED runVars

\* a variant of ChunkStep that starts the next chunk one key too far
ChunkStepSkips ==
    /\ pc = "loop"
    /\ idx <= OrZero(ScalarMax(db.keys))
    /\ LET current_end == idx + db.chunk_size - 1
           chunk_count == Some(Cardinality({k \in db.keys : idx <= k /\ k <= current_end}))
       IN /\ ret' = Some([total |-> ret[1].total + OrZero(chunk_count),
                          q |-> Append(ret[1].q, ChunkQuery(idx, current_end))])
          /\ idx' = current_end + 2
    /\ UNCHANGED <<pc, family, rules, results, origin, qlog, db, faults>>
    /\ UNCHANGED runVars

\* while current_start <= max_id: one iteration
ChunkStep ==
    /\ pc = "loop"
    /\ idx <= OrZero(ScalarMax(db.keys))
    /\ LET current_end == idx + db.chunk_size - 1
           chunk_count == Some(Cardinality({k \in db.keys : idx <= k /\ k <= current_end}))
       IN /\ ret' = Some([total |-> ret[1].total + OrZero(chunk_count),
                          q |-> Append(ret[1].q, ChunkQuery(idx, current_end))])
          /\ idx' = current_end + 1
    /\ UNCHANGED <<pc, family, rules, results, origin, qlog, db, faults>>
    /\ UNCHANGED runVars

\* the loop condition fails: return total_count
ChunkExit ==
    /\ pc = "loop"
    /\ idx > OrZero(ScalarMax(db.keys))
    /\ pc' = "returned"
    /\ UNCHANGED <<family, rules, idx, results, origin, qlog, db, faults, ret>>
    /\ UNCHANGED runVars

NextChunkLoop ==
    \/ ChunkEnter
    \/ ChunkStep
    \/ ChunkExit

\* the call runs on until it returns
SpecChunkLoop == InitChunkLoop /\ [][NextChunkLoop]_vars /\ WF_vars(NextChunkLoop)

\* ceil(n / d) for n >= 0, d >= 1
CeilDiv(n, d) == (n + d - 1) \div d

\* C26: execute_chunked_count terminates for every table and every
\* chunk_size >= 1; when max(pk) is absent or 0 it returns 0 without any chunk
\* query, and otherwise it issues exactly
\* ceil((max(pk) - min(pk) + 1) / chunk_size) chunk queries, the chunk start
\* growing strictly with every iteration, and then returns.
C26_ChunkLoopTerminates ==
    /\ <>(pc = "returned")
    /\ [](pc = "returned" =>
             LET q == ret[1].q
             IN IF db.keys = {} \/ SetMax(db.keys) = 0
                THEN ret[1].total = 0 /\ Chunks(q) = {}
                ELSE /\ Cardinality(Chunks(q)) =
                           CeilDiv(SetMax(db.keys) - SetMin(db.keys) + 1, db.chunk_size)
                     /\ \A i, j \in Chunks(q) : i < j => q[i].a < q[j].a)
    /\ [][(pc = "loop" /\ pc' = "loop") => idx' > idx]_vars
    /\ [][pc = "returned" => pc' = "returned"]_vars

C26_Witness ==
    /\ pc = "returned"
    /\ db.keys = {-2, 2}
    /\ db.chunk_size = 2
    /\ Cardinality(Chunks(ret[1].q)) = 3
    /\ ret[1].total = 2

(***************************************************************************)
(* Properties of _init_pool.                                               *)
(***************************************************************************)
\* C27: _init_pool makes at most 10 attempts in sequence; it returns at the
\* first successful attempt and makes no further one; after a MySQL error on
\* attempt k < 10 it waits 3 seconds and makes attempt k + 1; after a MySQL
\* error on attempt 10 it raises ConnectionError without waiting, and only
\* then; any other exception propagates at once.
C27_RetrySequence ==
    /\ [](stage \in {"connect", "sleep"} =>
             /\ attempt \in 1..10
             /\ slept = 3 * (attempt - 1)
             /\ ~pool /\ raised = None)
    /\ [](pool => stage = "checks")
    /\ [][stage = "sleep" =>
             /\ stage' = "connect"
             /\ attempt' = attempt + 1
             /\ slept' = slept + 3]_vars
    /\ [][(stage = "connect" /\ stage' = "sleep") =>
             (attempt < 10 /\ attempt' = attempt /\ slept' = slept)]_vars
    /\ [][(stage = "connect" /\ attempt = 10) => stage' \in {"checks", "raised"}]_vars
    /\ [][(raised = None /\ raised' = Some("ConnectionError")) =>
             (stage = "connect" /\ attempt = 10 /\ slept = 27 /\ stage' = "raised")]_vars
    /\ [][(stage = "connect" /\ raised' = Some("Exception")) =>
             (stage' = "raised" /\ ~pool')]_vars
    /\ [][stage = "connect" => stage' \in {"checks", "sleep", "raised"}]_vars

\* the tenth attempt, after nine waits of 3 seconds
C27_Witness ==
    /\ stage = "connect"
    /\ attempt = 10
    /\ slept = 27
    /\ ~pool
    /\ raised = None

(***************************************************************************)
(* The null evaluator with an executor that may answer the detail query    *)
(* with NULL sums.                                                         *)
(***************************************************************************)
\* one iteration of the loop of NullChecker.run_checks in which the detail
\* query answers NULL sums
NullRuleNullSums ==
    /\ family = "null"
    /\ pc = "run_checks"
    /\ idx <= Len(rules)
    /\ Get(rules[idx], "include_empty_string", FALSE)
    /\ Len(db.col) > 0
    /\ LET o == Evaluate(rules[idx], "null", NullRequired,
                         NullPathNullSums(rules[idx], db.col), 0)
       IN /\ results' = Appended(results, o)
          /\ origin' = Appended(origin, [res |-> [j \in 1..Len(o.res) |-> idx]])
          /\ qlog' = qlog \o Tagged(o.q, idx)
    /\ idx' = idx + 1
    /\ UNCHANGED <<pc, family, rules, db, faults, ret>>
    /\ UNCHANGED runVars

InitAnswers == InitNull

NextAnswers ==
    \/ NullRule
    \/ NullRuleNullSums
    \/ Return

SpecAnswers == InitAnswers /\ [][NextAnswers]_vars

ResultsOf(k) == {i \in 1..Len(origin) : origin[i] = k}

\* C28: whatever the executor does (any returned value, null included, any
\* raised exception), evaluating one rule appends at most one result: no rule
\* has both a PASS/WARNING/FAIL result and an ERROR result.
C28_AtMostOneResult ==
    \A k \in 1..Len(rules) :
        /\ Cardinality(ResultsOf(k)) <= 1
        /\ \A i, j \in ResultsOf(k) : Classified(results[i]) => results[j].status # "ERROR"

\* one rule with a classified result followed by an ERROR result
C28_Witness ==
    /\ Len(rules) = 1
    /\ origin = <<1, 1>>
    /\ Classified(results[1])
    /\ results[1].details.empty_string_count = None
    /\ results[2].status = "ERROR"
    /\ results[2].details = [error |-> "TypeError"]

(***************************************************************************)
(* A checker constructed on a rule list, or on none; all_rules keeps the   *)
(* list handed to the constructor under the family's name.                 *)
(***************************************************************************)
InitConstruct ==
    /\ pc = "run_checks"
    /\ family \in Families
    /\ \E supplied \in {None} \cup {Some(l) : l \in RuleLists(RuleUniverse(family), MaxRules)} :
          /\ supplied = None => family \in {"duplicate", "range"}
          /\ rules = Construct(family, supplied)
          /\ all_rules = IF supplied = None THEN <<>>
                         ELSE [f \in {family} |-> supplied[1]]
    /\ idx = 1
    /\ results = <<>>
    /\ origin = <<>>
    /\ qlog = <<>>
    /\ db \in Databases(family)
    /\ faults = 0
    /\ ret = None
    /\ stage = "none"
    /\ attempt = 0
    /\ pool = FALSE
    /\ check_list = {}
    /\ report_type = "none"
    /\ cur = 0
    /\ called = {}
    /\ all_results = <<>>
    /\ summary = None
    /\ reported = {}
    /\ raised = None
    /\ slept = 0
    /\ exit_code = None

NextConstruct ==
    \/ CountRule
    \/ NullRule
    \/ DuplicateRule
    \/ RangeRule
    \/ TransformRule
    \/ MaskingRule
    \/ Return

SpecConstruct == InitConstruct /\ [][NextConstruct]_vars

\* the list the checker was constructed with, None when there was none
Supplied == IF family \in DOMAIN all_rules THEN Some(all_rules[family]) ELSE None

\* C29: the Count, Null, Transform and Masking checkers evaluate exactly the
\* rule list they were constructed with (an empty list gives no result and no
\* query); the Duplicate and Range checkers evaluate their built-in default
\* lists when constructed with no list or an empty one, and the supplied list
\* otherwise.
C29_RulesEvaluated ==
    /\ [](family \in {"count", "null", "transform", "masking"} =>
             (Supplied # None /\ rules = Supplied[1]))
    /\ [](family = "duplicate" =>
             rules = IF Supplied = None \/ Supplied[1] = <<>>
                     THEN DEFAULT_DUPLICATE_RULES ELSE Supplied[1])
    /\ [](family = "range" =>
             rules = IF Supplied = None \/ Supplied[1] = <<>>
                     THEN DEFAULT_RANGE_RULES ELSE Supplied[1])
    /\ [](pc = "returned" =>
             /\ idx = Len(rules) + 1
             /\ \A i \in 1..Len(origin) : origin[i] \in 1..Len(rules)
             /\ \A j \in 1..Len(qlog) : qlog[j].rule \in 1..Len(rules)
             /\ rules = <<>> => (results = <<>> /\ qlog = <<>>))
    /\ [][rules' = rules /\ all_rules' = all_rules]_vars
    /\ [][idx' # idx =>
             /\ idx' = idx + 1
             /\ \A i \in (Len(results) + 1)..Len(results') :
                   /\ origin'[i] = idx
                   /\ results'[i].rule_id = Get(rules[idx], "rule_id", "UNKNOWN")]_vars

\* a DuplicateChecker constructed with an empty list has run the defaults
C29_Witness ==
    /\ pc = "returned"
    /\ family = "duplicate"
    /\ Supplied = Some(<<>>)
    /\ rules = DEFAULT_DUPLICATE_RULES
    /\ Len(results) = Len(DEFAULT_DUPLICATE_RULES)
    /\ Len(qlog) > 0

(***************************************************************************)
(* run_checks called a second time on the same checker.  The caller keeps  *)
(* the value of the list the first call returned in all_results, and       *)
(* called tells that the second call was made.                             *)
(***************************************************************************)
InitAgain == Init

\* a variant of RunChecksAgain that starts the second call on an empty list
RunChecksAgainFresh ==
    /\ pc = "returned"
    /\ called = {}
    /\ pc' = "run_checks"
    /\ idx' = 1
    /\ results' = <<>>
    /\ origin' = <<>>
    /\ all_results' = results
    /\ called' = {family}
    /\ UNCHANGED <<family, rules, qlog, db, faults, ret>>
    /\ UNCHANGED <<stage, attempt, pool, check_list, all_rules, report_type,
                   cur, summary, reported, raised, slept, exit_code>>

\* the second run_checks call: the loop starts over self.rules again, and
\* self.results is the list the first call left
RunChecksAgain ==
    /\ pc = "returned"
    /\ called = {}
    /\ pc' = "run_checks"
    /\ idx' = 1
    /\ all_results' = results
    /\ called' = {family}
    /\ UNCHANGED <<family, rules, results, origin, qlog, db, faults, ret>>
    /\ UNCHANGED <<stage, attempt, pool, check_list, all_rules, report_type,
                   cur, summary, reported, raised, slept, exit_code>>

NextAgain ==
    \/ CountRule
    \/ NullRule
    \/ DuplicateRule
    \/ RangeRule
    \/ TransformRule
    \/ MaskingRule
    \/ Return
    \/ RunChecksAgain

SpecAgain == InitAgain /\ [][NextAgain]_vars

\* C30: the result collection is append-only: no step removes, replaces or
\* modifies a result appended earlier, and none modifies the rule list; a
\* second run_checks call on the same checker returns the results of the
\* first call unchanged, followed by the results of the second call.
C30_AppendOnly ==
    /\ [][/\ Len(results') >= Len(results)
          /\ \A i \in 1..Len(results) : results'[i] = results[i]
          /\ rules' = rules]_vars
    /\ []((called # {} /\ pc = "returned") =>
             /\ Len(results) >= Len(all_results)
             /\ SubSeq(results, 1, Len(all_results)) = all_results
             /\ \A i \in (Len(all_results) + 1)..Len(results) :
                   /\ origin[i] \in 1..Len(rules)
                   /\ results[i].rule_id = Get(rules[origin[i]], "rule_id", "UNKNOWN")
             /\ \A i, j \in (Len(all_results) + 1)..Len(results) :
                   i <= j => origin[i] <= origin[j])

\* the second call has returned the results of the first one and its own
C30_Witness ==
    /\ pc = "returned"
    /\ called # {}
    /\ Len(all_results) > 0
    /\ Len(results) > Len(all_results)
    /\ SubSeq(results, 1, Len(all_results)) = all_results

====
